---- MODULE Spec2Model ----
(***************************************************************************)
(* goclient: the pooled request object (builder + single-shot executor),   *)
(* the client's factories, the batch executor and the request pool.        *)
(* Source: src/README.md (the package source, lines 286-971) and           *)
(* src/config.go.                                                          *)
(***************************************************************************)
EXTENDS Integers, Sequences, FiniteSets, TLC

VARIABLES
    client,     \* the *client: baseURL, globalHeaders, bearerToken, basicAuth
    clients,    \* the heap of the clients made for the package-level
                \* defaultClient, each with its pool; the variable refers to
                \* the one made last
    objs,       \* the heap of *request objects allocated by client.pool.New
    pool,       \* client.pool (sync.Pool): how many times each object is held
    uses,       \* the RequestBuilder values callers hold, one per factory call
    invoked,    \* the handler invocations made so far, in order: (fn, argument)
    errDst,     \* the caller's value behind the SetError pointer
    nsets,      \* builder calls made so far
    tasks,      \* the running Result() calls: goroutines of Execute and Submit
    batch,      \* the heap of *batchRequest objects: requests, responses,
                \* errors, mu, wg
    execs,      \* for each batch, its Execute calls: one running, how many
                \* returned, the context passed, the length of b.responses
                \* when the last one began and what the Result() of each of
                \* its goroutines returned
    rpool,      \* the heap of *requestPool objects: workers, jobs,
                \* shutdown, wg, and where the caller of Wait() stands
    chans,      \* the result channel of each Submit call, and how many
                \* values its reader has received
    log         \* history: the header and credential calls made so far

vars == <<client, clients, objs, pool, uses, invoked, errDst, nsets, tasks, batch, execs,
          rpool, chans, log>>

----------------------------------------------------------------------------
(* Bounds of the model *)

MaxObjs == 2        \* objects pool.New may allocate
MaxUses == 2        \* factory calls
MaxReads == 2       \* Result() calls on one RequestBuilder value
MaxSets == 1        \* builder calls (SetHeader, SetBody, ...) in one run
MaxAdds == 2        \* Add calls on the batch
MaxExecutes == 2    \* Execute calls on the batch
MaxSubmits == 3     \* Submit calls on the pool
MaxWorkers == 1     \* largest worker count passed to Pool
MaxHeaderWrites == 2 \* SetHeader and SetHeaders calls where they are recorded
MaxAuthCalls == 2   \* SetBearerToken and WithBasicAuth calls
MaxBatches == 2     \* Batch() calls
MaxPools == 2       \* Pool(n) calls
MaxMade == 2        \* Batch() and Pool(n) calls where they are recorded
MaxBodies == 2      \* SetBody calls where they are recorded
MaxMapWrites == 3   \* header and query-parameter calls where both are recorded
MaxHandlerCalls == 2 \* OnSuccess and OnError calls where they are recorded
MaxLateSubmits == 2 \* Submit calls where the pool is shut down meanwhile
MaxClients == 2     \* clients made for the package-level defaultClient

----------------------------------------------------------------------------
(* Values *)

Nil == [type |-> "nil"]

\* A Go map[string]string: nil until made.
NilMap == [made |-> FALSE, kv |-> <<>>]

MapSet(m, k, v) ==
    [made |-> TRUE,
     kv |-> [x \in (DOMAIN m.kv) \cup {k} |-> IF x = k THEN v ELSE m.kv[x]]]

MapMergeReplaces(m, src) == [made |-> TRUE, kv |-> src]

MapMerge(m, src) ==
    [made |-> TRUE,
     kv |-> [x \in (DOMAIN m.kv) \cup (DOMAIN src) |->
                IF x \in DOMAIN src THEN src[x] ELSE m.kv[x]]]

Methods == {"GET", "POST", "PUT", "PATCH", "DELETE"}
Background == "background"
NilCtx == "nil"
Contexts == {NilCtx, Background, "ctx"}
Endpoints == {"/a", ":bad"}
HeaderKeys == {"X-Custom"}
HeaderVals == {"v1"}
HeaderMaps == {<<>>} \cup {[k \in {"X-Custom"} |-> v] : v \in {"v2"}}
NilBody == [kind |-> "nil"]
Bodies == {[kind |-> "struct", v |-> "x"], [kind |-> "chan", v |-> "c"]}
Handlers == {"fn"}
ErrorDests == {"errDst"}

fmtErrorf(msg, cause) == [type |-> "error", msg |-> msg, cause |-> cause]

----------------------------------------------------------------------------
(* The request object *)

newRequest ==
    [client |-> 0, method |-> "", endpoint |-> "", ctx |-> NilCtx, headers |-> NilMap,
     body |-> NilBody, queryParams |-> NilMap, successHandler |-> "nil",
     errorHandler |-> "nil", errorType |-> "nil", result |-> "nil",
     executed |-> FALSE, response |-> Nil, err |-> Nil]

resetKeepsHeaders(r) ==
    [r EXCEPT !.method = "", !.endpoint = "", !.ctx = NilCtx,
              !.body = NilBody, !.queryParams = NilMap,
              !.successHandler = "nil", !.errorHandler = "nil",
              !.errorType = "nil", !.result = "nil", !.executed = FALSE,
              !.response = Nil, !.err = Nil]

reset(r) ==
    [r EXCEPT !.method = "", !.endpoint = "", !.ctx = NilCtx,
              !.headers = NilMap, !.body = NilBody, !.queryParams = NilMap,
              !.successHandler = "nil", !.errorHandler = "nil",
              !.errorType = "nil", !.result = "nil", !.executed = FALSE,
              !.response = Nil, !.err = Nil]

----------------------------------------------------------------------------
(* execute(): from the URL to the request handed to the transport *)

BadBaseURLs == {":badbase"}
BadEndpoints == {":bad"}

\* url.JoinPath fails when the base does not parse; an empty base passes the
\* endpoint through.
resolveURL(c, endpoint) ==
    IF c.baseURL = ""
    THEN [ok |-> TRUE, url |-> [base |-> "", path |-> endpoint]]
    ELSE IF c.baseURL \in BadBaseURLs
         THEN [ok |-> FALSE,
               err |-> "failed to resolve URL: JoinPath"]
         ELSE [ok |-> TRUE, url |-> [base |-> c.baseURL, path |-> endpoint]]

\* url.Parse of the resolved URL.
urlParse(u) ==
    IF u.base = "" /\ u.path \in BadEndpoints
    THEN [ok |-> FALSE, err |-> "parse"]
    ELSE [ok |-> TRUE, url |-> u]

jsonMarshalLossy(v) ==
    IF v.kind = "chan"
    THEN [ok |-> FALSE, err |-> "json: unsupported type"]
    ELSE [ok |-> TRUE, bytes |-> [enc |-> "json", of |-> ""]]

\* json.Marshal: the JSON text of the value, or no text for a value JSON
\* has no form for.
jsonMarshal(v) ==
    IF v.kind = "chan"
    THEN [ok |-> FALSE, err |-> "json: unsupported type"]
    ELSE [ok |-> TRUE, bytes |-> [enc |-> "json", of |-> v.v]]

prepareBody(r) ==
    CASE r.body.kind = "nil"    -> [ok |-> TRUE, bytes |-> Nil]
      [] r.body.kind = "bytes"  -> [ok |-> TRUE, bytes |-> [enc |-> "raw", of |-> r.body.v]]
      [] r.body.kind = "string" -> [ok |-> TRUE, bytes |-> [enc |-> "raw", of |-> r.body.v]]
      [] r.body.kind = "reader" -> [ok |-> TRUE, bytes |-> [enc |-> "raw", of |-> r.body.v]]
      [] OTHER                  -> jsonMarshal(r.body)

DefaultHeaders ==
    [k \in {"Content-Type", "Accept"} |-> "application/json"]

Overlay(lower, upper) ==
    [k \in (DOMAIN lower) \cup (DOMAIN upper) |->
        IF k \in DOMAIN upper THEN upper[k] ELSE lower[k]]

\* http.Header.Set stores a value under the canonical form of its key.
CanonicalKey(k) ==
    CASE k = "content-type"  -> "Content-Type"
      [] k = "accept"        -> "Accept"
      [] k = "x-custom"      -> "X-Custom"
      [] k = "authorization" -> "Authorization"
      [] OTHER               -> k

Range(f) == {f[x] : x \in DOMAIN f}

rangeAdd(hdr, m) ==
    [K \in (DOMAIN hdr) \cup {CanonicalKey(k) : k \in DOMAIN m} |->
        IF K \in DOMAIN hdr THEN hdr[K]
        ELSE m[CHOOSE k \in DOMAIN m : CanonicalKey(k) = K]]

rangeSetKeepsFirst(hdr, m) == {rangeAdd(hdr, m)}

\* `for key, value := range m { req.Header.Set(key, value) }` applied to
\* hdr: a Go map is ranged over in no fixed order, so of the keys of m with
\* one canonical form any may be the last to be set.
rangeSet(hdr, m) ==
    LET D == (DOMAIN hdr) \cup {CanonicalKey(k) : k \in DOMAIN m}
        from(K) == {m[k] : k \in {x \in DOMAIN m : CanonicalKey(x) = K}}
    IN  {H \in [D -> Range(hdr) \cup Range(m)] :
            \A K \in D : IF from(K) # {} THEN H[K] \in from(K)
                                         ELSE H[K] = hdr[K]}

\* The header maps addHeaders can leave on the request.
addHeaders(c, r) ==
    UNION {rangeSet(g, r.headers.kv) : g \in rangeSet(DefaultHeaders, c.globalHeaders)}

\* The text base64 makes of s, written b64(s).
base64(s) == "b64(" \o s \o ")"

\* The Authorization value http.Request.SetBasicAuth sets.
basicAuth(username, password) ==
    "Basic " \o base64(username \o ":" \o password)

addAuthIfAbsent(c, hdr) ==
    IF "Authorization" \in DOMAIN hdr THEN hdr
    ELSE IF c.basicAuth.Username # "" /\ c.basicAuth.Password # ""
    THEN Overlay(hdr, [k \in {"Authorization"} |->
            basicAuth(c.basicAuth.Username, c.basicAuth.Password)])
    ELSE IF c.bearerToken # ""
    THEN Overlay(hdr, [k \in {"Authorization"} |-> "Bearer " \o c.bearerToken])
    ELSE hdr

addAuthEither(c, hdr) ==
    LET bearer == IF c.bearerToken # ""
                  THEN Overlay(hdr, [k \in {"Authorization"} |->
                                        "Bearer " \o c.bearerToken])
                  ELSE hdr
    IN  IF c.basicAuth.Username # "" \/ c.basicAuth.Password # ""
        THEN Overlay(bearer, [k \in {"Authorization"} |->
                basicAuth(c.basicAuth.Username, c.basicAuth.Password)])
        ELSE bearer

\* Lines 774-780: the bearer token is set if there is one, then the basic
\* credentials are set over it if both are there.
addAuth(c, hdr) ==
    LET bearer == IF c.bearerToken # ""
                  THEN Overlay(hdr, [k \in {"Authorization"} |->
                                        "Bearer " \o c.bearerToken])
                  ELSE hdr
    IN  IF c.basicAuth.Username # "" /\ c.basicAuth.Password # ""
        THEN Overlay(bearer, [k \in {"Authorization"} |->
                basicAuth(c.basicAuth.Username, c.basicAuth.Password)])
        ELSE bearer

\* Lines 728-780: either the failure execute records before any round trip,
\* or the *http.Request it built, hdr being what addHeaders left on it.
prepare(c, r, hdr) ==
    LET res == resolveURL(c, r.endpoint) IN
    IF ~res.ok
    THEN [ok |-> FALSE, err |-> fmtErrorf("failed to resolve URL", res.err)]
    ELSE
    LET parsed == urlParse(res.url) IN
    IF ~parsed.ok
    THEN [ok |-> FALSE, err |-> fmtErrorf("invalid URL", parsed.err)]
    ELSE
    LET u == [base |-> parsed.url.base, path |-> parsed.url.path,
              query |-> r.queryParams.kv]
        b == prepareBody(r)
    IN
    IF r.body.kind # "nil" /\ ~b.ok
    THEN [ok |-> FALSE,
          err |-> fmtErrorf("failed to prepare request body", b.err)]
    ELSE IF r.ctx = NilCtx
    THEN [ok |-> FALSE,
          err |-> fmtErrorf("failed to create request", "net/http: nil Context")]
    ELSE [ok |-> TRUE,
          req |-> [Method |-> r.method, URL |-> u, ctx |-> r.ctx,
                   Body |-> b.bytes, Header |-> addAuth(c, hdr)]]

----------------------------------------------------------------------------
(* execute(): the round trip and what it records *)

Statuses == {200, 404}
BodyFormats == {"json", "text"}

\* The Content-Type a server puts on a body of format f.
contentType(f) ==
    [k \in {"Content-Type"} |->
        IF f = "json" THEN "application/json" ELSE "text/plain"]

\* What httpClient.Do can answer to req.  No response: the cause is the
\* transport or the request's context, and ctxErr says whether the context's
\* Err() is set when execute reads it (line 785); a context that ended the
\* round trip has it set, one that cannot be cancelled never has.  Or, the
\* URL naming a host, a response whose body reads or fails to read.
RepliesOf(req, statuses, formats) ==
    {[kind |-> "fail", cause |-> "transport", ctxErr |-> FALSE]}
    \cup (IF req.ctx = Background THEN {} ELSE
          {[kind |-> "fail", cause |-> "transport", ctxErr |-> TRUE],
           [kind |-> "fail", cause |-> "context", ctxErr |-> TRUE]})
    \cup IF req.URL.base = "" THEN {} ELSE
         {[kind |-> "resp", status |-> 200, read |-> FALSE, body |-> Nil,
           header |-> contentType("json")]}
         \cup {[kind |-> "resp", status |-> s, read |-> TRUE,
                body |-> [fmt |-> f, of |-> req.URL.path],
                header |-> contentType(f)] :
                 s \in statuses, f \in formats}

Replies(req, formats) == RepliesOf(req, Statuses, formats)

\* A server and a network of which nothing is known, answering in JSON.
anyServer(req) == Replies(req, {"json"})

\* The server of the package's tests: /posts/1 answers 200 and /posts/404
\* answers 404, each with a JSON body.
testServer(req) ==
    {[kind |-> "resp", read |-> TRUE,
      status |-> IF req.URL.path = "/posts/404" THEN 404 ELSE 200,
      body |-> [fmt |-> "json", of |-> req.URL.path],
      header |-> contentType("json")]}

jsonUnmarshalOK(body) == body.fmt = "json"

RequestError(status, req, body, e) ==
    [type |-> "RequestError", StatusCode |-> status, URL |-> req.URL,
     Method |-> req.Method, Response |-> body, Err |-> e]

isFailureStatusAbove400(status) == status > 400

\* Line 807: resp.StatusCode >= 400.
isFailureStatus(status) == status >= 400

ctxErrIgnored(out) == FALSE

\* Line 785: r.ctx.Err() != nil.
ctxErr(out) == out.ctxErr

\* Lines 783-843: the fields of r after the round trip answered `out`.
finish(r, req, out) ==
    IF out.kind = "fail"
    THEN [r EXCEPT
            !.err = IF ctxErr(out)
                    THEN fmtErrorf("request canceled or timed out", "ctx.Err")
                    ELSE fmtErrorf("request failed", out.cause),
            !.executed = TRUE]
    ELSE IF ~out.read
    THEN [r EXCEPT !.err = fmtErrorf("error reading response body", "read"),
                   !.executed = TRUE]
    ELSE IF isFailureStatus(out.status)
    THEN [r EXCEPT
            !.err = RequestError(out.status, req, out.body,
                      IF r.errorType # "nil" /\ jsonUnmarshalOK(out.body)
                      THEN fmtErrorf("request failed with status code", out.body.of)
                      ELSE fmtErrorf("request failed with status code", "")),
            !.executed = TRUE]
    ELSE LET resp == [type |-> "Response", StatusCode |-> out.status,
                      Headers |-> out.header, Body |-> out.body]
         IN  IF r.result # "nil" /\ ~jsonUnmarshalOK(out.body)
             THEN [r EXCEPT !.response = resp,
                            !.err = fmtErrorf("failed to unmarshal response", "json"),
                            !.executed = TRUE]
             ELSE [r EXCEPT !.response = resp, !.executed = TRUE]

\* The error destination after the round trip answered `out` (line 818).
finishDst(r, out, dst) ==
    IF out.kind = "resp" /\ out.read /\ isFailureStatus(out.status)
       /\ r.errorType # "nil" /\ jsonUnmarshalOK(out.body)
    THEN out.body.of
    ELSE dst

----------------------------------------------------------------------------
(* client.pool: sync.Pool *)

Objs == 1..Len(objs)

\* pool.Get(): an object the pool holds, or (the pool finding none to hand
\* out) a new one from pool.New.
poolGetChoices ==
    {o \in Objs : pool[o] > 0}
    \cup (IF Len(objs) < MaxObjs THEN {Len(objs) + 1} ELSE {})

poolAfterGet(o) ==
    IF o \in Objs THEN [pool EXCEPT ![o] = @ - 1] ELSE Append(pool, 0)

\* The pool of a client made for defaultClient: how many times it holds
\* each object it holds.
held(p, o) == IF o \in DOMAIN p THEN p[o] ELSE 0

\* The package-level variable defaultClient.
defaultClient == Len(clients)

\* The client a reference stands for: 0 is the client of the variable
\* client, k > 0 the k-th client made for defaultClient.
theClient(c) == IF c = 0 THEN client ELSE clients[c]

\* c.pool.Get() on the client c.
getChoices(c) ==
    IF c = 0 THEN poolGetChoices
    ELSE {o \in Objs : held(clients[c].pool, o) > 0}
         \cup (IF Len(objs) < MaxObjs THEN {Len(objs) + 1} ELSE {})

\* The pools after c.pool.Get() returned o.
afterGet(c, o) ==
    IF c = 0
    THEN [pool |-> poolAfterGet(o), clients |-> clients]
    ELSE [pool |-> IF o \in Objs THEN pool ELSE Append(pool, 0),
          clients |-> IF o \in Objs
                      THEN [clients EXCEPT ![c].pool[o] = @ - 1]
                      ELSE clients]

poolPutOnSuccess(p, o) ==
    IF objs[o].err = Nil THEN [p EXCEPT ![o] = @ + 1] ELSE p

poolPut(p, o) == [p EXCEPT ![o] = @ + 1]

----------------------------------------------------------------------------
(* The client's factories *)

\* The body shared by the five ...WithContext factories, called on the
\* client c: pool.New binds the object it makes to c; the value handed out
\* is remembered with the client that handed it out.
acquireFrom(c, method, ctx, endpoint) ==
    /\ Len(uses) < MaxUses
    /\ \E o \in getChoices(c) :
        LET r == IF o \in Objs THEN objs[o] ELSE [newRequest EXCEPT !.client = c]
            fresh == [reset(r) EXCEPT !.method = method,
                                      !.endpoint = endpoint, !.ctx = ctx]
        IN  /\ objs' = IF o \in Objs THEN [objs EXCEPT ![o] = fresh]
                       ELSE Append(objs, fresh)
            /\ pool' = afterGet(c, o).pool
            /\ clients' = afterGet(c, o).clients
            /\ uses' = Append(uses, [obj |-> o, by |-> c, nreads |-> 0,
                                     first |-> <<Nil, Nil>>, same |-> TRUE,
                                     trips |-> 0, into |-> <<>>])
    /\ UNCHANGED <<client, invoked, errDst, nsets, log, tasks, batch, execs,
                   rpool, chans>>

acquire(method, ctx, endpoint) == acquireFrom(0, method, ctx, endpoint)

GetWithContext(ctx, endpoint) == acquire("GET", ctx, endpoint)
PostWithContext(ctx, endpoint) == acquire("POST", ctx, endpoint)
PutWithContext(ctx, endpoint) == acquire("PUT", ctx, endpoint)
PatchWithContext(ctx, endpoint) == acquire("PATCH", ctx, endpoint)
DeleteWithContext(ctx, endpoint) == acquire("DELETE", ctx, endpoint)

Get(endpoint) == GetWithContext(Background, endpoint)
Post(endpoint) == PostWithContext(Background, endpoint)
Put(endpoint) == PutWithContext(Background, endpoint)
Patch(endpoint) == PatchWithContext(Background, endpoint)
Delete(endpoint) == DeleteWithContext(Background, endpoint)

----------------------------------------------------------------------------
(* The builder methods, called on a RequestBuilder value h the caller holds *)

Held == 1..Len(uses)

setField(h, r) ==
    /\ nsets' = nsets + 1
    /\ objs' = [objs EXCEPT ![uses[h].obj] = r]
    /\ UNCHANGED <<client, clients, pool, uses, errDst, tasks, batch, execs, rpool, chans>>

SetHeader(h, key, value) ==
    /\ setField(h, [objs[uses[h].obj] EXCEPT !.headers = MapSet(@, key, value)])
    /\ UNCHANGED invoked

SetHeaders(h, headers) ==
    /\ setField(h, [objs[uses[h].obj] EXCEPT !.headers = MapMerge(@, headers)])
    /\ UNCHANGED invoked

SetBodyOnce(h, body) ==
    /\ setField(h, [objs[uses[h].obj] EXCEPT
                        !.body = IF @ = NilBody THEN body ELSE @])
    /\ UNCHANGED invoked

SetBody(h, body) ==
    /\ setField(h, [objs[uses[h].obj] EXCEPT !.body = body])
    /\ UNCHANGED invoked

SetQueryParam(h, key, value) ==
    /\ setField(h, [objs[uses[h].obj] EXCEPT !.queryParams = MapSet(@, key, value)])
    /\ UNCHANGED invoked

SetQueryParams(h, params) ==
    /\ setField(h, [objs[uses[h].obj] EXCEPT !.queryParams = MapMerge(@, params)])
    /\ UNCHANGED invoked

SetError(h, v) ==
    /\ setField(h, [objs[uses[h].obj] EXCEPT !.errorType = v])
    /\ UNCHANGED invoked

OnSuccessAlways(h, fn) ==
    LET r == objs[uses[h].obj] IN
    /\ setField(h, [r EXCEPT !.successHandler = fn])
    /\ invoked' = Append(invoked, <<fn, r.response>>)

OnSuccess(h, fn) ==
    LET r == objs[uses[h].obj] IN
    /\ setField(h, [r EXCEPT !.successHandler = fn])
    /\ invoked' = IF r.executed /\ r.err = Nil /\ r.response # Nil
                  THEN Append(invoked, <<fn, r.response>>)
                  ELSE invoked

OnError(h, fn) ==
    LET r == objs[uses[h].obj] IN
    /\ setField(h, [r EXCEPT !.errorHandler = fn])
    /\ invoked' = IF r.executed /\ r.err # Nil /\ r.err.type = "RequestError"
                  THEN Append(invoked, <<fn, r.err>>)
                  ELSE invoked

----------------------------------------------------------------------------
(* Result(): a call in progress is a task.  kind says who runs it: a caller *)
(* ("direct"), a goroutine of Execute ("batch") or of Submit ("submit"), or *)
(* a worker of a pool ("worker"); on is the batch or the pool it belongs to. *)
(* While execute() runs, req is the request built, doer the client whose    *)
(* httpClient sends it, calls the number of                                 *)
(* httpClient.Do calls made, out what Do answered and stream the state of   *)
(* resp.Body.                                                               *)

task(kind, h, idx) ==
    [kind |-> kind, h |-> h, obj |-> uses[h].obj, idx |-> idx, on |-> 0,
     pc |-> "begin", req |-> Nil, doer |-> -1, calls |-> 0, out |-> Nil,
     stream |-> Nil, ret |-> <<Nil, Nil>>]

boundToDefault(r) == defaultClient

\* r.client, as execute() and Result() read it.
bound(r) == r.client

moved(t, new) == (tasks \ {t}) \cup {new}

\* No call on the RequestBuilder value h is in progress: a caller does not
\* use one value from two goroutines at once.
idle(h) == \A t \in tasks : t.h # h

\* The caller calls h.Result().
Result(h) ==
    /\ uses[h].nreads < MaxReads
    /\ idle(h)
    /\ tasks' = tasks \cup {task("direct", h, 0)}
    /\ UNCHANGED <<client, clients, objs, pool, uses, invoked, errDst, nsets, log, batch,
                   execs, rpool, chans>>

\* Result() line 608 and execute() up to the round trip: nothing to do when
\* executed is set; a failure before the round trip is recorded; otherwise
\* the request goes to the transport.
ResultBegin(t) ==
    LET o == t.obj
        r == objs[o]
    IN
    /\ t.pc = "begin"
    /\ \E hdr \in addHeaders(theClient(bound(r)), r) :
        LET p == prepare(theClient(bound(r)), r, hdr) IN
        IF r.executed
        THEN /\ tasks' = moved(t, [t EXCEPT !.pc = "ret"])
             /\ UNCHANGED <<objs, uses>>
        ELSE IF ~p.ok
        THEN /\ objs' = [objs EXCEPT ![o].err = p.err, ![o].executed = TRUE]
             /\ tasks' = moved(t, [t EXCEPT !.pc = "ret"])
             /\ UNCHANGED uses
        ELSE /\ tasks' = moved(t, [t EXCEPT !.pc = "net", !.req = p.req,
                                             !.doer = bound(r),
                                             !.calls = @ + 1])
             /\ uses' = IF t.kind = "direct"
                        THEN [uses EXCEPT ![t.h].trips = @ + 1]
                        ELSE uses
             /\ UNCHANGED objs
    /\ UNCHANGED <<client, clients, pool, invoked, errDst, nsets, log, batch, execs,
                   rpool, chans>>

bodyStreamNoDefer(out) ==
    IF out.kind # "resp" THEN Nil
    ELSE IF out.read /\ ~isFailureStatus(out.status)
         THEN [drained |-> TRUE, closed |-> 1]
         ELSE [drained |-> FALSE, closed |-> 0]

\* Lines 793-798: resp.Body when execute() has returned.  The deferred
\* function drains and closes it on whatever path execute() returns; there
\* is no body when Do returned an error.
bodyStream(out) ==
    IF out.kind = "resp" THEN [drained |-> TRUE, closed |-> 1] ELSE Nil

RoundTripRetries(t, replies) ==
    LET o == t.obj IN
    /\ t.pc = "net"
    /\ \E out \in replies :
        IF out.kind = "fail" /\ t.calls < 2
        THEN /\ tasks' = moved(t, [t EXCEPT !.calls = @ + 1])
             /\ UNCHANGED <<objs, errDst>>
        ELSE /\ objs' = [objs EXCEPT ![o] = finish(@, t.req, out)]
             /\ errDst' = finishDst(objs[o], out, errDst)
             /\ tasks' = moved(t, [t EXCEPT !.pc = "ret", !.out = out,
                                              !.stream = bodyStream(out)])
    /\ UNCHANGED <<client, clients, pool, uses, invoked, nsets, log, batch, execs, rpool,
                   chans>>

\* httpClient.Do answers, and execute() records the outcome and returns.
RoundTrip(t, replies) ==
    LET o == t.obj IN
    /\ t.pc = "net"
    /\ \E out \in replies :
        /\ objs' = [objs EXCEPT ![o] = finish(@, t.req, out)]
        /\ errDst' = finishDst(objs[o], out, errDst)
        /\ tasks' = moved(t, [t EXCEPT !.pc = "ret", !.out = out,
                                         !.stream = bodyStream(out)])
    /\ UNCHANGED <<client, clients, pool, uses, invoked, nsets, log, batch, execs, rpool,
                   chans>>

\* What the caller of h.Result() has seen: the first pair it got, whether
\* every later pair was that pair again, and how many calls returned.
seen(u, ret) ==
    [u EXCEPT !.nreads = @ + 1,
              !.first = IF u.nreads = 0 THEN ret ELSE @,
              !.same = IF u.nreads = 0 THEN TRUE ELSE @ /\ ret = u.first]

\* Result() lines 613-615: the return values are read, then the deferred
\* pool.Put runs.  A caller's call is over; a goroutine goes on.
ResultReturn(t) ==
    LET o == t.obj
        ret == <<objs[o].response, objs[o].err>>
    IN
    /\ t.pc = "ret"
    /\ pool' = IF bound(objs[o]) = 0 THEN poolPut(pool, o) ELSE pool
    /\ clients' = IF bound(objs[o]) = 0 THEN clients
                  ELSE [clients EXCEPT ![bound(objs[o])].pool =
                            (o :> held(@, o) + 1) @@ @]
    /\ IF t.kind = "direct"
       THEN /\ tasks' = tasks \ {t}
            /\ uses' = [uses EXCEPT ![t.h] = seen(@, ret)]
       ELSE /\ tasks' = moved(t, [t EXCEPT !.pc = "after", !.ret = ret,
                                             !.req = Nil, !.doer = -1,
                                             !.calls = 0, !.out = Nil,
                                             !.stream = Nil])
            /\ UNCHANGED uses
    /\ execs' = IF t.kind = "batch"
                THEN [execs EXCEPT ![t.on].outs = (t.idx :> ret) @@ @]
                ELSE execs
    /\ UNCHANGED <<client, objs, invoked, errDst, nsets, log, batch, rpool, chans>>

\* The caller calls h.Into(v).
Into(h, v) ==
    /\ uses[h].into = <<>>
    /\ idle(h)
    /\ tasks' = tasks \cup {[task("into", h, 0) EXCEPT !.idx = v]}
    /\ UNCHANGED <<client, clients, objs, pool, uses, invoked, errDst, nsets, log, batch,
                   execs, rpool, chans>>

jsonUnmarshalLenient(body) ==
    IF body.fmt \in {"json", "empty"}
    THEN [ok |-> TRUE, v |-> body.of]
    ELSE [ok |-> FALSE, err |-> [type |-> "json", msg |-> "json.Unmarshal"]]

\* json.Unmarshal(body, v) of lines 623 and 630.
jsonUnmarshal(body) ==
    IF jsonUnmarshalOK(body)
    THEN [ok |-> TRUE, v |-> body.of]
    ELSE [ok |-> FALSE, err |-> [type |-> "json", msg |-> "json.Unmarshal"]]

intoFailureSurfacesDecode(r, err, dst) ==
    IF err.type = "RequestError" /\ r.errorType # "nil"
    THEN IF jsonUnmarshal(err.Response).ok
         THEN [err |-> [type |-> "wrapped", msg |-> "%w: %+v", err |-> err,
                        detail |-> jsonUnmarshal(err.Response).v],
               v |-> "", dst |-> jsonUnmarshal(err.Response).v]
         ELSE [err |-> jsonUnmarshal(err.Response).err, v |-> "", dst |-> dst]
    ELSE [err |-> err, v |-> "", dst |-> dst]

\* Lines 620-629: Into when r.Result() returned a failure.
intoFailure(r, err, dst) ==
    IF err.type = "RequestError" /\ r.errorType # "nil"
       /\ jsonUnmarshal(err.Response).ok
    THEN [err |-> [type |-> "wrapped", msg |-> "%w: %+v", err |-> err,
                   detail |-> jsonUnmarshal(err.Response).v],
          v |-> "", dst |-> jsonUnmarshal(err.Response).v]
    ELSE [err |-> err, v |-> "", dst |-> dst]

\* Lines 619-630: what Into returns after r.Result() returned (resp, err), and
\* what it leaves behind v and behind the error destination.
intoOutcome(r, resp, err, dst) ==
    IF err # Nil
    THEN intoFailure(r, err, dst)
    ELSE IF resp = Nil
    THEN [err |-> [type |-> "panic", msg |-> "nil pointer dereference"],
          v |-> "", dst |-> dst]
    ELSE LET d == jsonUnmarshal(resp.Body) IN
         IF d.ok THEN [err |-> Nil, v |-> d.v, dst |-> dst]
                 ELSE [err |-> d.err, v |-> "", dst |-> dst]

\* Into after its r.Result() returned: the caller gets Into's error.
IntoReturn(t) ==
    LET res == intoOutcome(objs[t.obj], t.ret[1], t.ret[2], errDst) IN
    /\ t.kind = "into" /\ t.pc = "after"
    /\ uses' = [uses EXCEPT ![t.h].into =
                    <<[err |-> res.err, v |-> res.v, ret |-> t.ret,
                       errorType |-> objs[t.obj].errorType]>>]
    /\ errDst' = res.dst
    /\ tasks' = tasks \ {t}
    /\ UNCHANGED <<client, clients, objs, pool, invoked, nsets, log, batch, execs,
                   rpool, chans>>

\* SetBearerToken: the client's token is set in place.
SetBearerToken(token) ==
    /\ client' = [client EXCEPT !.bearerToken = token]
    /\ UNCHANGED <<clients, objs, pool, uses, invoked, errDst, nsets, tasks, batch,
                   execs, rpool, chans>>

\* WithBasicAuth: the client's user name and password are set in place.
WithBasicAuth(username, password) ==
    /\ client' = [client EXCEPT !.basicAuth = [Username |-> username,
                                               Password |-> password]]
    /\ UNCHANGED <<clients, objs, pool, uses, invoked, errDst, nsets, tasks, batch,
                   execs, rpool, chans>>

----------------------------------------------------------------------------
(* One goroutine building requests and reading their results *)

\* The zero value of Config (config.go lines 8-21); durations in seconds.
zeroConfig ==
    [BaseURL |-> "", Timeout |-> 0, GlobalHeaders |-> <<>>, Interceptor |-> Nil,
     MaxIdleConns |-> 0, MaxIdleConnsPerHost |-> 0, MaxConnsPerHost |-> 0,
     IdleConnTimeout |-> 0, TLSHandshakeTimeout |-> 0,
     DisableKeepAlives |-> FALSE, DisableCompression |-> FALSE,
     ResponseHeaderTimeout |-> 0]

defaultConfigFieldwise(config) ==
    IF Len(config) > 0
    THEN [config[1] EXCEPT !.Timeout = IF @ = 0 THEN 30 ELSE @]
    ELSE [zeroConfig EXCEPT !.Timeout = 30, !.MaxIdleConns = 100,
                            !.MaxIdleConnsPerHost = 10,
                            !.IdleConnTimeout = 90,
                            !.TLSHandshakeTimeout = 10,
                            !.ResponseHeaderTimeout = 10]

\* defaultConfig(config ...Config): the defaults, or the first argument as
\* it is.
defaultConfig(config) ==
    IF Len(config) > 0
    THEN config[1]
    ELSE [zeroConfig EXCEPT !.Timeout = 30, !.MaxIdleConns = 100,
                            !.MaxIdleConnsPerHost = 10,
                            !.IdleConnTimeout = 90,
                            !.TLSHandshakeTimeout = 10,
                            !.ResponseHeaderTimeout = 10]

\* A RoundTripper: its name and the settings it runs with.
roundTripper(name, cfg) ==
    [type |-> "RoundTripper", name |-> name,
     MaxIdleConns |-> cfg.MaxIdleConns,
     MaxIdleConnsPerHost |-> cfg.MaxIdleConnsPerHost,
     IdleConnTimeout |-> cfg.IdleConnTimeout,
     TLSHandshakeTimeout |-> cfg.TLSHandshakeTimeout,
     ResponseHeaderTimeout |-> cfg.ResponseHeaderTimeout,
     DisableKeepAlives |-> cfg.DisableKeepAlives,
     DisableCompression |-> cfg.DisableCompression]

\* http.DefaultTransport, with the settings net/http gives it.
DefaultTransport ==
    roundTripper("http.DefaultTransport",
                 [zeroConfig EXCEPT !.MaxIdleConns = 100,
                                    !.IdleConnTimeout = 90,
                                    !.TLSHandshakeTimeout = 10])

\* Lines 398-402: the transport New gives the http.Client.
newTransport(cfg) ==
    IF cfg.Interceptor # Nil THEN cfg.Interceptor ELSE DefaultTransport

\* New(config ...Config).
New(config) ==
    LET cfg == defaultConfig(config) IN
    [httpClient |-> [Timeout |-> cfg.Timeout, Transport |-> newTransport(cfg)],
     baseURL |-> cfg.BaseURL, globalHeaders |-> cfg.GlobalHeaders,
     interceptor |-> cfg.Interceptor, bearerToken |-> "",
     basicAuth |-> [Username |-> "", Password |-> ""]]

\* New(Config{BaseURL: baseURL}).
newClient(baseURL) == New(<<[zeroConfig EXCEPT !.BaseURL = baseURL]>>)

BaseURLs == {"", "http://h", ":badbase"}

InitBuilder ==
    /\ client \in {newClient(b) : b \in BaseURLs}
    /\ objs = <<>>
    /\ pool = <<>>
    /\ uses = <<>>
    /\ invoked = <<>>
    /\ clients = <<>>
    /\ errDst = ""
    /\ nsets = 0
    /\ log = <<>>
    /\ tasks = {}
    /\ batch = <<>>
    /\ execs = <<>>
    /\ rpool = <<>>
    /\ chans = <<>>

Factory ==
    \/ \E e \in Endpoints : Get(e)
    \/ \E e \in {"/a"} : Post(e)
    \/ \E e \in {"/a"} : Put(e)
    \/ \E e \in {"/a"} : Patch(e)
    \/ \E e \in {"/a"} : Delete(e)
    \/ \E c \in Contexts \ {Background}, e \in {"/a"} : GetWithContext(c, e)
    \/ \E c \in {Background}, e \in {"/a"} : PostWithContext(c, e)
    \/ \E c \in {Background}, e \in {"/a"} : PutWithContext(c, e)
    \/ \E c \in {Background}, e \in {"/a"} : PatchWithContext(c, e)
    \/ \E c \in {Background}, e \in {"/a"} : DeleteWithContext(c, e)

Setter ==
    /\ nsets < MaxSets
    /\ UNCHANGED log
    /\ \E h \in Held :
        \/ \E k \in HeaderKeys, v \in HeaderVals : SetHeader(h, k, v)
        \/ \E m \in HeaderMaps : SetHeaders(h, m)
        \/ \E b \in Bodies : SetBody(h, b)
        \/ \E k \in HeaderKeys, v \in HeaderVals : SetQueryParam(h, k, v)
        \/ \E m \in HeaderMaps : SetQueryParams(h, m)
        \/ \E v \in ErrorDests : SetError(h, v)
        \/ \E fn \in Handlers : OnSuccess(h, fn)
        \/ \E fn \in Handlers : OnError(h, fn)

StepBuilder ==
    \E t \in tasks :
        ResultBegin(t) \/ RoundTrip(t, anyServer(t.req)) \/ ResultReturn(t)

NextBuilder ==
    \/ tasks = {} /\ Factory
    \/ tasks = {} /\ Setter
    \/ tasks = {} /\ \E h \in Held : Result(h)
    \/ StepBuilder

SpecBuilder == InitBuilder /\ [][NextBuilder]_vars

----------------------------------------------------------------------------
(* batchRequest *)

allocShared(heap, new) ==
    IF heap = <<>> THEN [heap |-> <<new>>, ref |-> 1]
                   ELSE [heap |-> heap, ref |-> 1]

\* &T{...}: a new object at the end of the heap, and the reference to it.
alloc(heap, new) == [heap |-> Append(heap, new), ref |-> Len(heap) + 1]

\* The batchRequest Batch() builds: no requests and no results.
newBatch ==
    [requests |-> <<>>, responses |-> <<>>, errors |-> <<>>, mu |-> 0, wg |-> 0]

\* What is remembered of the Execute calls on one batch.
newExecs ==
    [running |-> FALSE, count |-> 0, base |-> 0, outs |-> <<>>, ctx |-> NilCtx]

\* Batch(): a new batchRequest is allocated.
Batch ==
    /\ Len(batch) < MaxBatches
    /\ batch' = alloc(batch, newBatch).heap
    /\ execs' = alloc(execs, newExecs).heap
    /\ UNCHANGED <<client, clients, objs, pool, uses, invoked, errDst, nsets, tasks,
                   rpool, chans>>

Batches == 1..Len(batch)

InBatch(b) == {batch[b].requests[i] : i \in 1..Len(batch[b].requests)}

Add(b, h) ==
    /\ Len(batch[b].requests) < MaxAdds
    /\ ~execs[b].running
    /\ h \notin InBatch(b)
    /\ batch' = [batch EXCEPT ![b].requests = Append(@, h)]
    /\ UNCHANGED <<client, clients, objs, pool, uses, invoked, errDst, nsets, log, tasks,
                   execs, rpool, chans>>

ExecuteStartBindsCtx(b, ctx) ==
    /\ ~execs[b].running
    /\ execs[b].count < MaxExecutes
    /\ \A h \in InBatch(b) : idle(h)
    /\ batch' = [batch EXCEPT ![b].wg = @ + Len(batch[b].requests)]
    /\ tasks' = tasks \cup {[task("batch", batch[b].requests[i], i)
                               EXCEPT !.on = b] :
                               i \in 1..Len(batch[b].requests)}
    /\ execs' = [execs EXCEPT ![b].running = TRUE, ![b].outs = <<>>,
                              ![b].base = Len(batch[b].responses),
                              ![b].ctx = ctx]
    /\ objs' = [o \in DOMAIN objs |->
                    IF o \in {uses[h].obj : h \in InBatch(b)}
                    THEN [objs[o] EXCEPT !.ctx = ctx] ELSE objs[o]]
    /\ UNCHANGED <<client, clients, pool, uses, invoked, errDst, nsets, log, rpool,
                   chans>>

\* Execute(ctx) lines 573-585: wg.Add and one goroutine per request.  ctx is
\* not used.
ExecuteStart(b, ctx) ==
    /\ ~execs[b].running
    /\ execs[b].count < MaxExecutes
    /\ \A h \in InBatch(b) : idle(h)
    /\ batch' = [batch EXCEPT ![b].wg = @ + Len(batch[b].requests)]
    /\ tasks' = tasks \cup {[task("batch", batch[b].requests[i], i)
                               EXCEPT !.on = b] :
                               i \in 1..Len(batch[b].requests)}
    /\ execs' = [execs EXCEPT ![b].running = TRUE, ![b].outs = <<>>,
                              ![b].base = Len(batch[b].responses),
                              ![b].ctx = ctx]
    /\ UNCHANGED <<client, clients, objs, pool, uses, invoked, errDst, nsets, log, rpool,
                   chans>>

muLockNoWait(b) == TRUE

\* b.mu.Lock() goes through when no goroutine holds b.mu.
muLock(b) == b.mu = 0

\* Lines 580-581: the goroutine takes b.mu and appends its response.
BatchLock(t) ==
    /\ t.kind = "batch" /\ t.pc = "after"
    /\ muLock(batch[t.on])
    /\ batch' = [batch EXCEPT ![t.on].mu = 1,
                              ![t.on].responses = Append(@, t.ret[1])]
    /\ tasks' = moved(t, [t EXCEPT !.pc = "locked"])
    /\ UNCHANGED <<client, clients, objs, pool, uses, invoked, errDst, nsets, log, execs,
                   rpool, chans>>

\* Lines 582-583: it appends its error and releases b.mu.
BatchUnlock(t) ==
    /\ t.kind = "batch" /\ t.pc = "locked"
    /\ batch' = [batch EXCEPT ![t.on].mu = 0,
                              ![t.on].errors = Append(@, t.ret[2])]
    /\ tasks' = moved(t, [t EXCEPT !.pc = "deferred"])
    /\ UNCHANGED <<client, clients, objs, pool, uses, invoked, errDst, nsets, log, execs,
                   rpool, chans>>

\* Line 577: the deferred wg.Done ends the goroutine.
BatchDone(t) ==
    /\ t.kind = "batch" /\ t.pc = "deferred"
    /\ batch' = [batch EXCEPT ![t.on].wg = @ - 1]
    /\ tasks' = tasks \ {t}
    /\ UNCHANGED <<client, clients, objs, pool, uses, invoked, errDst, nsets, log, execs,
                   rpool, chans>>

wgWaitEarly(b) == b.wg <= 1

\* b.wg.Wait() lets Execute go on.
wgWait(b) == b.wg = 0

\* Lines 587-588: Execute returns b.responses and b.errors.
ExecuteReturn(b) ==
    /\ execs[b].running
    /\ wgWait(batch[b])
    /\ execs' = [execs EXCEPT ![b].running = FALSE, ![b].count = @ + 1]
    /\ UNCHANGED <<client, clients, objs, pool, uses, invoked, errDst, nsets, log, tasks,
                   batch, rpool, chans>>

----------------------------------------------------------------------------
(* requestPool *)

DefaultWorkers == 10

\* The requestPool Pool(workers) builds, start() having run: the worker
\* count, and one goroutine started per worker.  jobs holds the requests
\* whose senders wait on the unbuffered p.jobs; wait says where the caller
\* of Wait() stands.
newPool(workers) ==
    LET n == IF workers <= 0 THEN DefaultWorkers ELSE workers
    IN  [workers |-> n, jobs |-> <<>>, shutdown |-> FALSE, wg |-> n,
         wait |-> "idle"]

\* Pool(workers): a new requestPool is allocated and its workers started.
Pool(workers) ==
    /\ Len(rpool) < MaxPools
    /\ rpool' = alloc(rpool, newPool(workers)).heap
    /\ UNCHANGED <<client, clients, objs, pool, uses, invoked, errDst, nsets, tasks,
                   batch, execs, chans>>

Pools == 1..Len(rpool)

ResultChanCap == 1

SubmitWhileRunning(p, h) ==
    /\ Len(chans) < MaxSubmits
    /\ idle(h)
    /\ chans' = Append(chans, [buf |-> <<>>, closed |-> FALSE, nrecv |-> 0])
    /\ tasks' = IF rpool[p].shutdown THEN tasks
                ELSE tasks \cup {[task("submit", h, Len(chans) + 1)
                                      EXCEPT !.on = p]}
    /\ UNCHANGED <<client, clients, objs, pool, uses, invoked, errDst, nsets, batch,
                   execs, rpool>>

SubmitToJobs(p, h) ==
    /\ Len(chans) < MaxSubmits
    /\ idle(h)
    /\ chans' = Append(chans, [buf |-> <<>>, closed |-> FALSE, nrecv |-> 0])
    /\ rpool' = [rpool EXCEPT ![p].jobs = Append(@, h)]
    /\ UNCHANGED <<client, clients, objs, pool, uses, invoked, errDst, nsets, batch,
                   execs, tasks>>

\* Submit(): a channel of its own and a goroutine of its own; nothing of the
\* pool p is used.
Submit(p, h) ==
    /\ Len(chans) < MaxSubmits
    /\ idle(h)
    /\ chans' = Append(chans, [buf |-> <<>>, closed |-> FALSE, nrecv |-> 0])
    /\ tasks' = tasks \cup {[task("submit", h, Len(chans) + 1) EXCEPT !.on = p]}
    /\ UNCHANGED <<client, clients, objs, pool, uses, invoked, errDst, nsets, batch,
                   execs, rpool>>

chanReadyUnbuffered(c) == Len(c.buf) < ResultChanCap - 1

\* A send on the channel goes through when its buffer has room.
chanReady(c) == Len(c.buf) < ResultChanCap

\* Line 554: resultChan <- Result{Response: resp, Error: err}
SubmitSend(t) ==
    /\ t.kind = "submit" /\ t.pc = "after"
    /\ chanReady(chans[t.idx])
    /\ chans' = [chans EXCEPT ![t.idx].buf =
                    Append(@, [Response |-> t.ret[1], Error |-> t.ret[2]])]
    /\ tasks' = moved(t, [t EXCEPT !.pc = "sent"])
    /\ UNCHANGED <<client, clients, objs, pool, uses, invoked, errDst, nsets, log, batch,
                   execs, rpool>>

SubmitCloseEarly(t) ==
    /\ t.kind = "submit" /\ t.pc \in {"after", "sent"}
    /\ chans' = [chans EXCEPT ![t.idx].closed = TRUE]
    /\ tasks' = tasks \ {t}
    /\ UNCHANGED <<client, clients, objs, pool, uses, invoked, errDst, nsets, log, batch,
                   execs, rpool>>

\* Line 555: close(resultChan) ends the goroutine.
SubmitClose(t) ==
    /\ t.kind = "submit" /\ t.pc = "sent"
    /\ chans' = [chans EXCEPT ![t.idx].closed = TRUE]
    /\ tasks' = tasks \ {t}
    /\ UNCHANGED <<client, clients, objs, pool, uses, invoked, errDst, nsets, log, batch,
                   execs, rpool>>

\* The caller receives from the channel Submit returned.
Receive(i) ==
    /\ chans[i].buf # <<>>
    /\ chans' = [chans EXCEPT ![i].buf = Tail(@), ![i].nrecv = @ + 1]
    /\ UNCHANGED <<client, clients, objs, pool, uses, invoked, errDst, nsets, log, tasks,
                   batch, execs, rpool>>

workerSelectJobsOnly(p) == IF p.jobs # <<>> THEN {"job"} ELSE {}

\* Lines 539-545: the cases of a worker's select that are ready: a job when
\* a sender waits on p.jobs, shutdown once p.shutdown is closed.
workerSelect(p) ==
    (IF p.jobs # <<>> THEN {"job"} ELSE {})
    \cup (IF p.shutdown THEN {"shutdown"} ELSE {})

\* The workers of pool p that have taken a job: each runs job.Result() and
\* then stays in its send on p.results, from which nothing receives.
busy(p) == {t \in tasks : t.kind = "worker" /\ t.on = p}

\* worker(): one turn of the loop of a worker of pool p that is in its
\* select.  The shutdown case returns and the deferred p.wg.Done() runs; the
\* job case takes the request and calls its Result().
worker(p) ==
    /\ rpool[p].wg - Cardinality(busy(p)) > 0
    /\ \E c \in workerSelect(rpool[p]) :
        IF c = "shutdown"
        THEN /\ rpool' = [rpool EXCEPT ![p].wg = @ - 1]
             /\ UNCHANGED tasks
        ELSE /\ rpool' = [rpool EXCEPT ![p].jobs = Tail(@)]
             /\ tasks' = tasks \cup
                    {[task("worker", Head(rpool[p].jobs), 0) EXCEPT !.on = p]}
    /\ UNCHANGED <<client, clients, objs, pool, uses, invoked, errDst, nsets, log,
                   batch, execs, chans>>

\* Wait() line 562: close(p.shutdown); closing a closed channel panics.
WaitClose(p) ==
    /\ rpool[p].wait \in {"idle", "returned"}
    /\ rpool' = IF rpool[p].shutdown
                THEN [rpool EXCEPT ![p].wait = "panicked"]
                ELSE [rpool EXCEPT ![p].shutdown = TRUE, ![p].wait = "blocked"]
    /\ UNCHANGED <<client, clients, objs, pool, uses, invoked, errDst, nsets, log, tasks,
                   batch, execs, chans>>

\* Wait() line 563: p.wg.Wait() lets the caller go on.
WaitReturn(p) ==
    /\ rpool[p].wait = "blocked"
    /\ rpool[p].wg = 0
    /\ rpool' = [rpool EXCEPT ![p].wait = "returned"]
    /\ UNCHANGED <<client, clients, objs, pool, uses, invoked, errDst, nsets, log, tasks,
                   batch, execs, chans>>

----------------------------------------------------------------------------
(* Callers on any number of goroutines, one batch and one pool made *)

Init ==
    /\ client = newClient("http://h")
    /\ objs = <<>>
    /\ pool = <<>>
    /\ uses = <<>>
    /\ invoked = <<>>
    /\ clients = <<>>
    /\ errDst = ""
    /\ nsets = 0
    /\ log = <<>>
    /\ tasks = {}
    /\ batch = <<newBatch>>
    /\ execs = <<newExecs>>
    /\ rpool \in {<<newPool(n)>> : n \in 0..MaxWorkers}
    /\ chans = <<>>

BatchCalls ==
    \/ \E e \in {"/posts/1", "/posts/404"} : Get(e)
    \/ \E b \in Batches, h \in Held : Add(b, h)
    \/ \E b \in Batches, ctx \in {Background, "ctx"} : ExecuteStart(b, ctx)
    \/ \E b \in Batches : ExecuteReturn(b)

PoolCalls ==
    \/ \E e \in {"/posts/1"} : Get(e)
    \/ \E p \in Pools, h \in Held : Submit(p, h) /\ UNCHANGED log
    \/ \E i \in 1..Len(chans) : Receive(i)

ResultSteps(t) ==
    ResultBegin(t) \/ RoundTrip(t, anyServer(t.req)) \/ ResultReturn(t)

LiveSteps(t) ==
    ResultBegin(t) \/ RoundTrip(t, testServer(t.req)) \/ ResultReturn(t)

BatchSteps(t) == BatchLock(t) \/ BatchUnlock(t) \/ BatchDone(t)

PoolSteps(t) == SubmitSend(t) \/ SubmitClose(t)

NextBatch == BatchCalls \/ \E t \in tasks : ResultSteps(t) \/ BatchSteps(t)

NextPool == PoolCalls \/ \E t \in tasks : ResultSteps(t) \/ PoolSteps(t)

LiveCalls ==
    \/ \E e \in {"/posts/1"} : Get(e)
    \/ \E b \in Batches, h \in Held : Add(b, h)
    \/ \E b \in Batches : ExecuteStart(b, Background)
    \/ \E p \in Pools, h \in Held : Submit(p, h) /\ UNCHANGED log
    \/ \E i \in 1..Len(chans) : Receive(i)

Executing == \E b \in Batches : execs[b].running

NextLive ==
    \/ ~Executing /\ LiveCalls
    \/ \E b \in Batches : ExecuteReturn(b)
    \/ \E t \in tasks : LiveSteps(t) \/ BatchSteps(t) \/ PoolSteps(t)

\* The goroutines are scheduled fairly; the caller is free to stop calling.
GoroutineStep ==
    \E t \in tasks : LiveSteps(t) \/ BatchSteps(t) \/ PoolSteps(t)

LiveSpec ==
    /\ Init
    /\ [][NextLive]_vars
    /\ WF_vars(GoroutineStep)
    /\ WF_vars(ExecuteReturn(1))

WaitCalls ==
    \/ \E e \in {"/posts/1"} : Get(e)
    \/ \E p \in Pools, h \in Held : Submit(p, h) /\ UNCHANGED log
    \/ \E i \in 1..Len(chans) : Receive(i)
    \/ \E p \in Pools : WaitClose(p)
    \/ \E p \in Pools : WaitReturn(p)

NextWait ==
    \/ WaitCalls
    \/ \E p \in Pools : worker(p)
    \/ \E t \in tasks : LiveSteps(t) \/ PoolSteps(t)

\* The workers and the caller blocked in Wait() are scheduled fairly; nothing
\* is asked of the goroutines of Submit.
LiveWait ==
    /\ Init
    /\ [][NextWait]_vars
    /\ WF_vars(worker(1))
    /\ WF_vars(WaitReturn(1))

----------------------------------------------------------------------------
(* One request of a client with global headers, its header calls recorded *)

GlobalHeaderMaps ==
    {<<>>, [k \in {"X-Custom"} |-> "g1"], [k \in {"content-type"} |-> "g2"]}
RequestHeaderKeys == {"x-custom", "X-Custom", "Accept"}
RequestHeaderVals == {"v1", "v2"}
RequestHeaderMaps ==
    {[k \in {"x-custom", "Accept"} |-> IF k = "Accept" THEN "m1" ELSE "m2"]}

InitHeaders ==
    /\ client \in {[newClient("http://h") EXCEPT !.globalHeaders = g] :
                      g \in GlobalHeaderMaps}
    /\ objs = <<>>
    /\ pool = <<>>
    /\ uses = <<>>
    /\ invoked = <<>>
    /\ clients = <<>>
    /\ errDst = ""
    /\ nsets = 0
    /\ log = <<>>
    /\ tasks = {}
    /\ batch = <<>>
    /\ execs = <<>>
    /\ rpool = <<>>
    /\ chans = <<>>

HeaderCalls ==
    /\ Len(log) < MaxHeaderWrites
    /\ \E h \in Held :
        \/ \E k \in RequestHeaderKeys, v \in RequestHeaderVals :
              /\ SetHeader(h, k, v)
              /\ log' = Append(log, [op |-> "SetHeader", h |-> h,
                                     m |-> [x \in {k} |-> v]])
        \/ \E m \in RequestHeaderMaps :
              /\ SetHeaders(h, m)
              /\ log' = Append(log, [op |-> "SetHeaders", h |-> h, m |-> m])

NextHeaders ==
    \/ tasks = {} /\ uses = <<>> /\ Get("/posts/1")
    \/ tasks = {} /\ HeaderCalls
    \/ tasks = {} /\ \E h \in Held : Result(h)
    \/ \E t \in tasks : LiveSteps(t)

SpecHeaders == InitHeaders /\ [][NextHeaders]_vars

----------------------------------------------------------------------------
(* Requests of a client whose credentials are set, the calls recorded *)

Tokens == {"t1", "t2"}
Credentials == {[Username |-> "u", Password |-> "p"]}

AuthCalls ==
    /\ Len(log) < MaxAuthCalls
    /\ \/ \E token \in Tokens :
            /\ SetBearerToken(token)
            /\ log' = Append(log, [op |-> "SetBearerToken", token |-> token,
                                   held |-> Len(uses)])
       \/ \E c \in Credentials :
            /\ WithBasicAuth(c.Username, c.Password)
            /\ log' = Append(log, [op |-> "WithBasicAuth", basic |-> c,
                                   held |-> Len(uses)])

NextAuth ==
    \/ tasks = {} /\ Get("/posts/1")
    \/ tasks = {} /\ AuthCalls
    \/ tasks = {} /\ \E h \in Held : Result(h)
    \/ \E t \in tasks : LiveSteps(t)

SpecAuth == Init /\ [][NextAuth]_vars

----------------------------------------------------------------------------
(* One request against a server that answers around the status boundary *)

EdgeStatuses == {200, 399, 400, 404}
EdgeFormats == {"json", "text", "empty"}
IntoDests == {"post"}

edgeServer(req) == RepliesOf(req, EdgeStatuses, EdgeFormats)

ExecCalls ==
    \/ uses = <<>> /\ \E c \in {Background, "ctx"} : GetWithContext(c, "/posts/1")
    \/ /\ nsets < MaxSets
       /\ UNCHANGED log
       /\ \E h \in Held, v \in ErrorDests : SetError(h, v)
    \/ \E h \in Held : Result(h)
    \/ \E h \in Held, v \in IntoDests : Into(h, v)

ExecSteps(t) ==
    \/ ResultBegin(t)
    \/ RoundTrip(t, edgeServer(t.req))
    \/ ResultReturn(t)
    \/ IntoReturn(t)

NextExec ==
    \/ tasks = {} /\ ExecCalls
    \/ \E t \in tasks : ExecSteps(t)

SpecExec == Init /\ [][NextExec]_vars

SpecBatch == Init /\ [][NextBatch]_vars

----------------------------------------------------------------------------
(* Callers on several goroutines, each calling Into on a request of its own *)

IntoCallers ==
    \/ \E e \in {"/posts/1", "/posts/404"} : Get(e)
    \/ /\ nsets < MaxSets
       /\ UNCHANGED log
       /\ \E h \in Held, v \in ErrorDests :
            idle(h) /\ uses[h].into = <<>> /\ SetError(h, v)
    \/ \E h \in Held, v \in IntoDests : Into(h, v)

IntoSteps(t) ==
    \/ ResultBegin(t)
    \/ RoundTrip(t, testServer(t.req))
    \/ ResultReturn(t)
    \/ IntoReturn(t)

NextInto == IntoCallers \/ \E t \in tasks : IntoSteps(t)

SpecInto == Init /\ [][NextInto]_vars

----------------------------------------------------------------------------
(* Requests with a body against a server that sends the body back *)

\* The strings that are the JSON text of a value, and that value.
jsonTexts == [s \in {"{post}"} |-> "post"]

\* Values json.Marshal has a form for: structs, strings, byte slices.
EchoBodies ==
    {[kind |-> "struct", v |-> "post"], [kind |-> "struct", v |-> "user"],
     [kind |-> "string", v |-> "hello"], [kind |-> "string", v |-> "{post}"],
     [kind |-> "bytes", v |-> "{post}"]}

\* The body of the response of a server that writes back the bytes it
\* read: JSON text where the bytes were JSON text, the same bytes anyway.
echoBody(bytes) ==
    IF bytes = Nil THEN [fmt |-> "empty", of |-> ""]
    ELSE IF bytes.enc = "json" THEN [fmt |-> "json", of |-> bytes.of]
    ELSE IF bytes.of \in DOMAIN jsonTexts
         THEN [fmt |-> "json", of |-> jsonTexts[bytes.of]]
         ELSE [fmt |-> "text", of |-> bytes.of]

echoServer(req) ==
    {[kind |-> "resp", status |-> 200, read |-> TRUE,
      body |-> echoBody(req.Body), header |-> contentType("json")]}

EchoCalls ==
    \/ Post("/echo")
    \/ /\ Len(log) < MaxBodies
       /\ \E h \in Held, x \in EchoBodies :
            /\ uses[h].into = <<>>
            /\ \A i \in 1..Len(log) : log[i].h # h
            /\ SetBody(h, x)
            /\ log' = Append(log, [op |-> "SetBody", h |-> h, body |-> x])
    \/ \E h \in Held, v \in IntoDests : Into(h, v)

EchoSteps(t) ==
    \/ ResultBegin(t)
    \/ RoundTrip(t, echoServer(t.req))
    \/ ResultReturn(t)
    \/ IntoReturn(t)

NextEcho ==
    \/ tasks = {} /\ EchoCalls
    \/ \E t \in tasks : EchoSteps(t)

SpecEcho == Init /\ [][NextEcho]_vars

----------------------------------------------------------------------------
(* Clients made from any Config, the argument of New recorded *)

\* An interceptor of the caller's, wrapping http.DefaultTransport.
CustomInterceptor ==
    [DefaultTransport EXCEPT !.name = "CustomInterceptor"]

Configs ==
    {[zeroConfig EXCEPT !.BaseURL = "http://h", !.Timeout = s, !.Interceptor = i,
                        !.MaxIdleConns = n, !.MaxIdleConnsPerHost = n \div 10,
                        !.IdleConnTimeout = d, !.TLSHandshakeTimeout = d \div 9,
                        !.ResponseHeaderTimeout = d \div 9,
                        !.DisableKeepAlives = k, !.DisableCompression = z] :
        s \in {0, 5}, i \in {Nil, CustomInterceptor}, n \in {100, 5}, d \in {90, 1},
        k \in BOOLEAN, z \in BOOLEAN}

InitConfig ==
    \E config \in {<<>>} \cup {<<c>> : c \in Configs} :
        /\ client = New(config)
        /\ log = <<[op |-> "New", config |-> config]>>
        /\ objs = <<>>
        /\ pool = <<>>
        /\ uses = <<>>
        /\ invoked = <<>>
        /\ clients = <<>>
        /\ errDst = ""
        /\ nsets = 0
        /\ tasks = {}
        /\ batch = <<>>
        /\ execs = <<>>
        /\ rpool = <<>>
        /\ chans = <<>>

NextConfig ==
    \/ tasks = {} /\ Get("/posts/1")
    \/ tasks = {} /\ \E h \in Held : Result(h)
    \/ \E t \in tasks : LiveSteps(t)

SpecConfig == InitConfig /\ [][NextConfig]_vars

----------------------------------------------------------------------------
(* A client whose Batch() and Pool(n) calls are recorded with the reference *)
(* each returned                                                            *)

InitFactories == InitBuilder /\ client = newClient("http://h")

FactoryCalls ==
    /\ Len(log) < MaxMade
    /\ \/ /\ Batch
          /\ log' = Append(log, [op |-> "Batch",
                                 ref |-> alloc(batch, newBatch).ref])
       \/ \E n \in 1..MaxWorkers :
          /\ Pool(n)
          /\ log' = Append(log, [op |-> "Pool",
                                 ref |-> alloc(rpool, newPool(n)).ref])

\* The references the recorded calls of one factory returned.
Made(op) == {log[i].ref : i \in {x \in 1..Len(log) : log[x].op = op}}

ExecutorCalls ==
    \/ Get("/posts/1")
    \/ \E b \in Made("Batch"), h \in Held : Add(b, h)
    \/ \E b \in Made("Batch") : ExecuteStart(b, Background)
    \/ \E b \in Made("Batch") : ExecuteReturn(b)
    \/ \E p \in Made("Pool") : WaitClose(p)
    \/ \E p \in Made("Pool") : WaitReturn(p)

NextFactories ==
    \/ FactoryCalls
    \/ ExecutorCalls
    \/ \E p \in Pools : worker(p)
    \/ \E t \in tasks : LiveSteps(t) \/ BatchSteps(t)

SpecFactories == InitFactories /\ [][NextFactories]_vars

SpecPool == Init /\ [][NextPool]_vars

----------------------------------------------------------------------------
(* Claims on the request object's lifecycle *)

\* C1: a RequestBuilder value makes at most one round trip, and every
\* Result() call on it after the first returns the pair the first returned,
\* whatever other requests the client created in between.
C1_ResultIdempotent ==
    \A h \in Held : uses[h].trips <= 1 /\ uses[h].same

\* C5: every Result() call that returns has put its object into the
\* client's pool once more, whatever the outcome and also when the outcome
\* was already cached.
C5_ResultReleases ==
    [][\A h \in Held :
          uses'[h].nreads = uses[h].nreads + 1
          => pool'[uses[h].obj] = pool[uses[h].obj] + 1]_vars

\* A second Result() on one value returned the cached pair of a failed
\* execution, and the pool holds the object once per call.
C5_Witness ==
    \E h \in Held :
        /\ uses[h].nreads = 2
        /\ uses[h].trips = 0
        /\ uses[h].first[2] # Nil
        /\ pool[uses[h].obj] = 2

Blank(r) ==
    /\ r.headers = NilMap /\ r.queryParams = NilMap /\ r.body = NilBody
    /\ r.successHandler = "nil" /\ r.errorHandler = "nil"
    /\ r.errorType = "nil" /\ r.result = "nil"
    /\ r.response = Nil /\ r.err = Nil /\ ~r.executed

\* C6: the object a factory hands out carries nothing but the method, the
\* endpoint and the context of the call, whatever its previous use left.
C6_FactoryHandsOutBlank ==
    [][Len(uses') = Len(uses) + 1
       => LET r == objs'[uses'[Len(uses')].obj]
          IN  Blank(r) /\ r.method \in Methods /\ r.endpoint \in Endpoints
              /\ r.ctx \in Contexts]_vars

\* An object whose first use set a builder field and was executed has been
\* handed out again and is blank.
C6_Witness ==
    /\ Len(uses) = 2
    /\ uses[1].obj = uses[2].obj
    /\ uses[1].nreads = 1
    /\ uses[2].nreads = 0
    /\ nsets = 1
    /\ tasks = {}
    /\ Blank(objs[uses[2].obj])

----------------------------------------------------------------------------
(* Claims on the batch executor *)

ExecuteReturns(b) == execs[b].running /\ ~execs'[b].running

\* C2: when the first Execute of a batch returns, responses[i] and
\* errors[i] are what Result() returned for the i-th request added,
\* whatever the order in which the goroutines finished.
C2_InsertionOrder ==
    [][\A b \in Batches :
          (ExecuteReturns(b) /\ execs[b].count = 0)
          => \A i \in 1..Len(batch[b].requests) :
                /\ batch[b].responses[i] = execs[b].outs[i][1]
                /\ batch[b].errors[i] = execs[b].outs[i][2]]_vars

\* C3: every Execute on a batch of N requests, the first or a later one,
\* returns N responses and N errors.
C3_LengthN ==
    [][\A b \in Batches :
          ExecuteReturns(b)
          => /\ Len(batch[b].responses) = Len(batch[b].requests)
             /\ Len(batch[b].errors) = Len(batch[b].requests)]_vars

\* C4: when Execute returns, every goroutine it launched has ended, each
\* after its Result() returned and its response and error were appended.
C4_JoinBarrier ==
    [][\A b \in Batches :
          ExecuteReturns(b)
          => /\ \A t \in tasks : ~(t.kind = "batch" /\ t.on = b)
             /\ DOMAIN execs[b].outs = 1..Len(batch[b].requests)
             /\ Len(batch[b].responses)
                  = execs[b].base + Len(batch[b].requests)
             /\ Len(batch[b].errors)
                  = execs[b].base + Len(batch[b].requests)]_vars

\* An Execute of two requests has returned.
C4_Witness ==
    /\ execs[1].count = 1
    /\ ~execs[1].running
    /\ Len(batch[1].requests) = 2
    /\ Len(batch[1].responses) = 2

----------------------------------------------------------------------------
(* Claims on the outcome of an execution and on the request pool *)

ExactlyOne(resp, err) == (resp = Nil) # (err = Nil)

\* C7: an executed object has a response or an error and not both, and so
\* has every Result a Submit channel carries.
C7_OneOutcome ==
    /\ \A o \in Objs : objs[o].executed
                       => ExactlyOne(objs[o].response, objs[o].err)
    /\ \A i \in 1..Len(chans) : \A k \in 1..Len(chans[i].buf) :
          ExactlyOne(chans[i].buf[k].Response, chans[i].buf[k].Error)

Sent(c) == Len(c.buf) + c.nrecv

\* C8: the channel of a Submit carries one value, the pair Result()
\* returned to the goroutine, and is closed after that value was sent.
C8_OneResultThenClose ==
    /\ [](\A i \in 1..Len(chans) :
            /\ Sent(chans[i]) <= 1
            /\ chans[i].closed => Sent(chans[i]) = 1)
    /\ [][\A t \in tasks :
            (t.kind = "submit" /\ Sent(chans'[t.idx]) > Sent(chans[t.idx]))
            => chans'[t.idx].buf =
                 <<[Response |-> t.ret[1], Error |-> t.ret[2]]>>]_vars

\* The one Result of a successful request was received and the channel is
\* closed.
C8_Witness ==
    \E i \in 1..Len(chans) :
        /\ chans[i].closed
        /\ chans[i].nrecv = 1
        /\ chans[i].buf = <<>>
        /\ objs[uses[1].obj].response # Nil
        /\ Len(uses) = 1

\* C10: no more requests submitted to a pool are in their round trip at
\* one time than the pool has workers.
C10_BoundedConcurrency ==
    \A p \in Pools :
        Cardinality({t \in tasks :
                        t.kind = "submit" /\ t.on = p /\ t.pc = "net"})
            <= rpool[p].workers

\* C9: with round trips that end, the goroutine of every Submit sends its
\* Result whether or not the caller receives, and every Execute returns.
C9_Progress ==
    /\ \A i \in 1..MaxSubmits :
          (Len(chans) >= i) ~> (Len(chans) >= i /\ Sent(chans[i]) = 1)
    /\ execs[1].running ~> ~execs[1].running

\* A Result was sent and its channel closed with nothing received, and an
\* Execute has returned.
C9_Witness ==
    /\ execs[1].count >= 1
    /\ ~execs[1].running
    /\ \E i \in 1..Len(chans) :
          /\ chans[i].closed
          /\ chans[i].nrecv = 0
          /\ Len(chans[i].buf) = 1

----------------------------------------------------------------------------
(* Claims on the pool's shutdown *)

\* C11: once Wait() has closed p.shutdown, every worker exits and Wait()
\* returns, with no worker left, whatever the goroutines of Submit do.
C11_WaitReturns ==
    /\ (rpool[1].wait = "blocked") ~> (rpool[1].wait = "returned")
    /\ [](rpool[1].wait = "returned" => rpool[1].wg = 0)

\* Wait() has returned from a pool of ten workers while a submitted request
\* is still in its round trip.
C11_Witness ==
    /\ rpool[1].wait = "returned"
    /\ rpool[1].workers = DefaultWorkers
    /\ \E t \in tasks : t.kind = "submit" /\ t.pc = "net"

----------------------------------------------------------------------------
(* Claims on the headers of the request sent *)

\* The per-request header map the first n recorded calls leave: a later
\* write of a key replaces an earlier one.
RECURSIVE written(_)
written(n) == IF n = 0 THEN <<>> ELSE log[n].m @@ written(n - 1)

ValuesFor(m, K) == {m[k] : k \in {x \in DOMAIN m : CanonicalKey(x) = K}}

Layered(H, defaults, global, request) ==
    /\ DOMAIN H = (DOMAIN defaults)
                  \cup {CanonicalKey(k) : k \in DOMAIN global}
                  \cup {CanonicalKey(k) : k \in DOMAIN request}
    /\ \A K \in DOMAIN H :
          IF ValuesFor(request, K) # {} THEN H[K] \in ValuesFor(request, K)
          ELSE IF ValuesFor(global, K) # {} THEN H[K] \in ValuesFor(global, K)
          ELSE H[K] = defaults[K]

Authorization(req) ==
    IF "Authorization" \in DOMAIN req.Header
    THEN req.Header["Authorization"] ELSE ""

\* C13: a request sent by a client that has a bearer token and basic-auth
\* credentials carries Authorization: Bearer <token>.
C13_BearerFirst ==
    \A t \in tasks :
        (/\ t.req # Nil
         /\ client.bearerToken # ""
         /\ client.basicAuth.Username # ""
         /\ client.basicAuth.Password # "")
        => Authorization(t.req) = "Bearer " \o client.bearerToken

\* C20: a request sent after a credential call, created before or after
\* it, carries the credentials of the last such call.
C20_NewCredentials ==
    \A t \in tasks :
        (t.req # Nil /\ log # <<>>) =>
            LET last == log[Len(log)] IN
            Authorization(t.req) =
                IF last.op = "SetBearerToken"
                THEN "Bearer " \o last.token
                ELSE basicAuth(last.basic.Username, last.basic.Password)

----------------------------------------------------------------------------
(* Claims on the outcome execute() records and Into returns *)

\* The task whose round trip has just been answered, its object not yet
\* returned to the pool.
Answered(t) == t.pc = "ret" /\ t.out # Nil

C15_CancelFlavor ==
    \A t \in tasks :
        (Answered(t) /\ t.out.kind = "fail") =>
            LET e == objs[t.obj].err IN
            /\ t.out.ctxErr =>
                 e = [type |-> "error", msg |-> "request canceled or timed out",
                      cause |-> "ctx.Err"]
            /\ ~t.out.ctxErr =>
                 e = [type |-> "error", msg |-> "request failed",
                      cause |-> "transport"]
            /\ t.out.cause = "context" => e.msg # "request failed"

\* The context ended the round trip and the failure recorded says so.
C15_Witness ==
    \E t \in tasks :
        /\ Answered(t) /\ t.out.kind = "fail"
        /\ t.out.cause = "context"
        /\ objs[t.obj].err.msg = "request canceled or timed out"

\* C16: a round trip without a response is recorded as a RequestError with
\* status code 0, the URL and method of the request and the cause.
C16_FailureType ==
    \A t \in tasks :
        (Answered(t) /\ t.out.kind = "fail") =>
            LET e == objs[t.obj].err IN
            /\ e.type = "RequestError"
            /\ e.StatusCode = 0
            /\ e.URL = t.req.URL
            /\ e.Method = t.req.Method

IntoCalls == {uses[h].into[1] : h \in {x \in Held : uses[x].into # <<>>}}

\* Result() returned a RequestError whose body decodes and an error
\* destination was set.
Decoded(i) ==
    /\ i.ret[2] # Nil
    /\ i.ret[2].type = "RequestError"
    /\ i.errorType # "nil"
    /\ i.ret[2].Response.fmt = "json"

\* C17: when the body of a response of status 400 or more decodes into the
\* error destination, Into returns the RequestError itself and the
\* destination holds the body.
C17_IntoReturnsRequestError ==
    \A i \in IntoCalls :
        Decoded(i) => /\ i.err.type = "RequestError"
                      /\ i.err.StatusCode = i.ret[2].StatusCode
                      /\ errDst = i.ret[2].Response.of

\* C18: without an error destination, or with a body that does not decode,
\* the RequestError recorded has the plain cause, and Into returns the
\* failure Result() returned, unchanged.
C18_BestEffort ==
    /\ \A t \in tasks :
          (/\ Answered(t) /\ t.out.kind = "resp" /\ t.out.read
           /\ t.out.status >= 400
           /\ (objs[t.obj].errorType = "nil" \/ t.out.body.fmt # "json"))
          => objs[t.obj].err =
               [type |-> "RequestError", StatusCode |-> t.out.status,
                URL |-> t.req.URL, Method |-> t.req.Method,
                Response |-> t.out.body,
                Err |-> [type |-> "error",
                         msg |-> "request failed with status code",
                         cause |-> ""]]
    /\ \A i \in IntoCalls :
          (i.ret[2] # Nil /\ ~Decoded(i)) => i.err = i.ret[2]

\* An error destination was set, the body of the 404 was not JSON, and Into
\* returned the RequestError of Result().
C18_Witness ==
    \E i \in IntoCalls :
        /\ i.errorType # "nil"
        /\ i.ret[2] # Nil
        /\ i.ret[2].type = "RequestError"
        /\ i.ret[2].StatusCode = 404
        /\ i.ret[2].Response.fmt = "text"
        /\ i.err = i.ret[2]

\* C19: Into returns nil exactly when Result() returned a response (status
\* below 400) whose body decodes; a response whose body does not decode,
\* an empty one included, makes Into return the decoding error.
C19_IntoNil ==
    \A i \in IntoCalls :
        /\ i.err = Nil <=> (/\ i.ret[2] = Nil
                            /\ i.ret[1] # Nil
                            /\ i.ret[1].StatusCode < 400
                            /\ i.ret[1].Body.fmt = "json")
        /\ (i.ret[2] = Nil /\ i.ret[1] # Nil /\ i.ret[1].Body.fmt # "json")
           => i.err.type = "json"

\* A 200 with an empty body: Result() returned a response, Into an error.
C19_Witness ==
    \E i \in IntoCalls :
        /\ i.ret[2] = Nil
        /\ i.ret[1] # Nil
        /\ i.ret[1].StatusCode = 200
        /\ i.ret[1].Body.fmt = "empty"
        /\ i.err # Nil
        /\ i.err.type = "json"

----------------------------------------------------------------------------
(* Claims on the executors the factories return *)

\* The calls of one factory, by their place in the record.
CallsOf(op) == {i \in 1..Len(log) : log[i].op = op}

\* The request and result sequences of the batch the i-th call returned.
Sequences(i) ==
    LET b == batch[log[i].ref] IN <<b.requests, b.responses, b.errors>>

\* C21: two calls of Batch() return two batches and no step changes the
\* request or result sequences of both; two calls of Pool(n) return two
\* pools, no step changes both, and a worker exits only once the shutdown
\* channel of its own pool is closed.
C21_IndependentExecutors ==
    [][/\ \A i, j \in CallsOf("Batch") :
            i # j => /\ log[i].ref # log[j].ref
                     /\ ~(Sequences(i)' # Sequences(i)
                           /\ Sequences(j)' # Sequences(j))
       /\ \A i, j \in CallsOf("Pool") :
            i # j => /\ log[i].ref # log[j].ref
                     /\ ~(rpool'[log[i].ref] # rpool[log[i].ref]
                           /\ rpool'[log[j].ref] # rpool[log[j].ref])
       /\ \A p \in Pools :
            rpool'[p].wg < rpool[p].wg => rpool[p].shutdown]_vars

\* Of two batches one holds a request and has been executed while the other
\* is as it was made.
C21_Witness ==
    /\ Len(batch) = 2
    /\ Len(batch[1].requests) = 1
    /\ Len(batch[1].responses) = 1
    /\ execs[1].count = 1
    /\ batch[2] = [requests |-> <<>>, responses |-> <<>>, errors |-> <<>>,
                   mu |-> 0, wg |-> 0]

\* Of two pools Wait() has returned on one, whose workers are gone, while
\* the workers of the other are all there.
C21_PoolWitness ==
    /\ Len(rpool) = 2
    /\ rpool[1].wait = "returned"
    /\ rpool[1].wg = 0
    /\ ~rpool[2].shutdown
    /\ rpool[2].wg = rpool[2].workers

----------------------------------------------------------------------------
(* Claims on the client's configuration *)

\* C22: the transport a request of a client made from a Config without
\* interceptor goes through runs with the connection-pool sizes, the
\* timeouts and the keep-alive and compression switches of that Config.
C22_TransportFromConfig ==
    \A t \in tasks :
        (t.pc = "net" /\ log[1].op = "New" /\ log[1].config # <<>>) =>
        LET cfg == log[1].config[1]
            tr == client.httpClient.Transport
        IN  cfg.Interceptor = Nil =>
              /\ tr.MaxIdleConns = cfg.MaxIdleConns
              /\ tr.MaxIdleConnsPerHost = cfg.MaxIdleConnsPerHost
              /\ tr.IdleConnTimeout = cfg.IdleConnTimeout
              /\ tr.TLSHandshakeTimeout = cfg.TLSHandshakeTimeout
              /\ tr.ResponseHeaderTimeout = cfg.ResponseHeaderTimeout
              /\ tr.DisableKeepAlives = cfg.DisableKeepAlives
              /\ tr.DisableCompression = cfg.DisableCompression

----------------------------------------------------------------------------
(* Claims on the body sent and the body decoded *)

\* The requests whose SetBody(X).Into(&Y) has returned, with X, the error
\* returned and Y, a struct.
RoundTrips ==
    {[X |-> log[i].body, err |-> uses[log[i].h].into[1].err,
      Y |-> [kind |-> "struct", v |-> uses[log[i].h].into[1].v]] :
        i \in {x \in 1..Len(log) : uses[log[x].h].into # <<>>}}

----------------------------------------------------------------------------
(* Claims on the ownership of the object during Into *)

\* C24: while an Into call is in progress the object it works on is handed
\* to no later factory call.
C24_IntoOwnsObject ==
    \A t \in tasks :
        t.kind = "into" =>
            \A h \in Held : h > t.h => uses[h].obj # t.obj

----------------------------------------------------------------------------
(* Claims on the results of a batch and on the channels of a pool *)

\* C25: the goroutine that appends an error to b.errors finds its own
\* response, and nothing else, appended to b.responses since it took b.mu:
\* the two land at one index.
C25_PairedAppend ==
    [][\A b \in Batches :
          Len(batch'[b].errors) > Len(batch[b].errors) =>
            LET n == Len(batch'[b].errors) IN
            /\ Len(batch'[b].responses) = n
            /\ \E t \in tasks \ tasks' :
                  /\ t.kind = "batch" /\ t.on = b /\ t.pc = "locked"
                  /\ batch'[b].responses[n] = t.ret[1]
                  /\ batch'[b].errors[n] = t.ret[2]]_vars

\* Two requests of one Execute ended differently and each index holds the
\* response and the error of one request.
C25_Witness ==
    /\ Len(batch[1].errors) = 2
    /\ execs[1].outs = (1 :> <<batch[1].responses[2], batch[1].errors[2]>>)
                        @@ (2 :> <<batch[1].responses[1], batch[1].errors[1]>>)
    /\ batch[1].responses[1] # Nil
    /\ batch[1].errors[2] # Nil

\* C26: no Wait() call closes a shutdown channel that is closed already.
C26_ShutdownClosedOnce ==
    \A p \in Pools : rpool[p].wait # "panicked"

\* C27: nothing is ever sent on p.jobs, no worker has taken a request, and
\* a worker has left its loop only after p.shutdown was closed.
C27_JobsNeverUsed ==
    \A p \in Pools :
        /\ rpool[p].jobs = <<>>
        /\ busy(p) = {}
        /\ rpool[p].wg < rpool[p].workers => rpool[p].shutdown

\* A submitted request has run and its channel is closed, every worker
\* still in its select; then the pool is shut down and a worker is gone.
C27_Witness ==
    /\ Len(chans) >= 1
    /\ chans[1].closed
    /\ rpool[1].shutdown
    /\ rpool[1].wg < rpool[1].workers

\* C28: whatever context Execute was called with, each request of the
\* batch goes out with the context of the factory call that made it, here
\* the background context, and none fails as cancelled.
C28_ExecuteCtxUnused ==
    \A t \in tasks :
        t.kind = "batch" =>
            /\ objs[t.obj].ctx = Background
            /\ t.req # Nil => t.req.ctx = Background
            /\ (t.out # Nil /\ t.out.kind = "fail") => ~t.out.ctxErr

\* An Execute called with a context that can be cancelled has returned, and
\* a request of it has its response.
C28_Witness ==
    /\ execs[1].ctx = "ctx"
    /\ execs[1].count = 1
    /\ Len(batch[1].responses) >= 1
    /\ batch[1].responses[1] # Nil

----------------------------------------------------------------------------
(* Claims on the paths of execute() *)

PrepareFailures ==
    {"failed to resolve URL", "invalid URL", "failed to prepare request body",
     "failed to create request"}

\* C29: an execution calls httpClient.Do at most once; one that failed on
\* the URL, the body or the construction of the request has recorded the
\* failure, set executed and not called it at all.
C29_NoTripNoRetry ==
    \A t \in tasks :
        /\ t.calls <= 1
        /\ (/\ t.pc = "ret"
            /\ objs[t.obj].err.type = "error"
            /\ objs[t.obj].err.msg \in PrepareFailures)
           => /\ objs[t.obj].executed
              /\ t.calls = 0
              /\ t.req = Nil

\* A body json.Marshal has no form for: the failure is recorded and nothing
\* was sent.
C29_Witness ==
    \E t \in tasks :
        /\ t.pc = "ret"
        /\ t.calls = 0
        /\ objs[t.obj].executed
        /\ objs[t.obj].err.type = "error"
        /\ objs[t.obj].err.msg = "failed to prepare request body"

----------------------------------------------------------------------------
(* Requests whose header and query-parameter calls are recorded with the    *)
(* object they wrote to                                                     *)

MapKeys == {"a", "b"}
MapVals == {"1"}
MapArgs == {<<>>, [k \in {"a", "b"} |-> "2"]}

MapCalls ==
    /\ Len(log) < MaxMapWrites
    /\ \E h \in Held :
        LET entry(op, m) == [op |-> op, h |-> h, obj |-> uses[h].obj,
                             held |-> Len(uses), m |-> m]
        IN
        \/ \E k \in MapKeys, v \in MapVals :
              /\ SetHeader(h, k, v)
              /\ log' = Append(log, entry("SetHeader", [x \in {k} |-> v]))
        \/ \E m \in MapArgs :
              /\ SetHeaders(h, m)
              /\ log' = Append(log, entry("SetHeaders", m))
        \/ \E k \in MapKeys, v \in MapVals :
              /\ SetQueryParam(h, k, v)
              /\ log' = Append(log, entry("SetQueryParam", [x \in {k} |-> v]))
        \/ \E m \in MapArgs :
              /\ SetQueryParams(h, m)
              /\ log' = Append(log, entry("SetQueryParams", m))

NextMaps ==
    \/ tasks = {} /\ Get("/posts/1")
    \/ tasks = {} /\ MapCalls
    \/ tasks = {} /\ \E h \in Held : Result(h)
    \/ \E t \in tasks : LiveSteps(t)

SpecMaps == InitFactories /\ [][NextMaps]_vars

----------------------------------------------------------------------------
(* Claims on the builder's maps *)

\* The recorded calls of the methods `ops` that wrote to object o since the
\* factory call that last handed it out.
WritesTo(o, ops) ==
    LET last == CHOOSE h \in Held :
                    /\ uses[h].obj = o
                    /\ \A g \in Held : uses[g].obj = o => g <= h
    IN  {i \in 1..Len(log) :
            log[i].op \in ops /\ log[i].obj = o /\ log[i].held >= last}

\* The map the calls W leave: no map without a call, and under each key any
\* call wrote the value the last of them wrote.
Merged(W) ==
    [made |-> W # {},
     kv |-> [k \in UNION {DOMAIN log[i].m : i \in W} |->
                log[CHOOSE i \in W :
                        /\ k \in DOMAIN log[i].m
                        /\ \A j \in W : k \in DOMAIN log[j].m => j <= i].m[k]]]

\* C31: the headers of a request object are the left-to-right merge of the
\* SetHeader and SetHeaders calls made on it since it was handed out, the
\* last write of a key winning and no key ever removed; the map exists from
\* the first call on.  The same holds of its query parameters and the
\* SetQueryParam and SetQueryParams calls.
C31_MergedWrites ==
    \A o \in Objs :
        /\ objs[o].headers.made = Merged(WritesTo(o, {"SetHeader", "SetHeaders"})).made
        /\ objs[o].headers.kv = Merged(WritesTo(o, {"SetHeader", "SetHeaders"})).kv
        /\ objs[o].queryParams.made
             = Merged(WritesTo(o, {"SetQueryParam", "SetQueryParams"})).made
        /\ objs[o].queryParams.kv
             = Merged(WritesTo(o, {"SetQueryParam", "SetQueryParams"})).kv

\* SetHeaders wrote two keys and a later SetHeader overwrote one of them: the
\* other is still there; and a first SetQueryParams with an empty map made
\* the map.
C31_Witness ==
    \E o \in Objs :
        /\ \E i, j \in WritesTo(o, {"SetHeader", "SetHeaders"}) :
              /\ i < j
              /\ log[i].op = "SetHeaders" /\ DOMAIN log[i].m = {"a", "b"}
              /\ log[j].op = "SetHeader" /\ DOMAIN log[j].m = {"a"}
        /\ objs[o].headers.kv["a"] = "1"
        /\ objs[o].headers.kv["b"] = "2"
        /\ \E i \in WritesTo(o, {"SetQueryParam", "SetQueryParams"}) :
              log[i].m = <<>>
        /\ objs[o].queryParams.made
        /\ DOMAIN objs[o].queryParams.kv = {}

----------------------------------------------------------------------------
(* Requests whose SetBody calls are recorded, against the echoing server    *)

SentBodies ==
    {[kind |-> "struct", v |-> "post"], [kind |-> "string", v |-> "hello"],
     [kind |-> "chan", v |-> "c"]}

BodyCalls ==
    \/ Post("/echo")
    \/ /\ Len(log) < MaxBodies
       /\ \E h \in Held, x \in SentBodies :
            /\ uses[h].into = <<>>
            /\ SetBody(h, x)
            /\ log' = Append(log, [op |-> "SetBody", h |-> h,
                                   obj |-> uses[h].obj, held |-> Len(uses),
                                   executed |-> objs[uses[h].obj].executed,
                                   body |-> x])
    \/ \E h \in Held : Result(h)
    \/ \E h \in Held, v \in IntoDests : Into(h, v)

NextBody ==
    \/ tasks = {} /\ BodyCalls
    \/ \E t \in tasks : EchoSteps(t)

SpecBody == InitFactories /\ [][NextBody]_vars

----------------------------------------------------------------------------
(* Claims on the request body *)

\* The value of the last recorded SetBody call among W, nil without one.
LastBody(W) ==
    IF W = {} THEN NilBody
    ELSE log[CHOOSE i \in W : \A j \in W : j <= i].body

\* The SetBody calls made on object o, since it was handed out, before it
\* executed.
BeforeExecution(o) == {i \in WritesTo(o, {"SetBody"}) : ~log[i].executed}

\* C32: SetBody stores the value and records no failure on the object; an
\* execution sends the encoding of the last value set before it, whatever
\* was set earlier, and when that value has no encoding the execution makes
\* no round trip and the failure is the error Result() is about to return.
C32_LastBodySent ==
    /\ \A o \in Objs :
          /\ objs[o].body = LastBody(WritesTo(o, {"SetBody"}))
          /\ ~objs[o].executed => objs[o].err = Nil /\ objs[o].response = Nil
    /\ \A t \in tasks :
          LET last == LastBody(BeforeExecution(t.obj)) IN
          /\ t.calls <= 1
          /\ t.pc = "net" => /\ last.kind # "chan"
                             /\ t.req.Body = prepareBody([body |-> last]).bytes
          /\ (t.pc = "ret" /\ last.kind = "chan")
             => /\ t.calls = 0
                /\ objs[t.obj].executed
                /\ objs[t.obj].err.type = "error"
                /\ objs[t.obj].err.msg = "failed to prepare request body"

\* A value JSON has no form for was set, then a struct: the struct is what
\* is sent.
C32_Witness ==
    \E t \in tasks :
        /\ t.pc = "net"
        /\ \E i, j \in BeforeExecution(t.obj) :
              /\ i < j
              /\ log[i].body.kind = "chan"
              /\ log[j].body = [kind |-> "struct", v |-> "post"]
        /\ t.req.Body = [enc |-> "json", of |-> "post"]

\* A struct was set, then a value JSON has no form for: Into returns the
\* encoding failure.
C32_FailureWitness ==
    \E h \in Held :
        /\ \E i, j \in BeforeExecution(uses[h].obj) :
              /\ i < j
              /\ log[i].body.kind = "struct"
              /\ log[j].body.kind = "chan"
        /\ uses[h].into # <<>>
        /\ uses[h].into[1].err.type = "error"
        /\ uses[h].into[1].err.msg = "failed to prepare request body"

----------------------------------------------------------------------------
(* Claims on the ownership of request objects *)

\* The RequestBuilder values handed out whose Result() has not been called.
Unread == {h \in Held : uses[h].nreads = 0 /\ idle(h)}

NoSharedUnread ==
    \A g, h \in Unread : g # h => uses[g].obj # uses[h].obj

\* C33: the client's pool holds no object twice, and no two values handed
\* out and not yet read are one object.
C33_ExclusiveOwnership ==
    /\ \A o \in Objs : pool[o] <= 1
    /\ NoSharedUnread

----------------------------------------------------------------------------
(* Requests whose OnSuccess and OnError calls are recorded with the state   *)
(* of the object each found                                                 *)

HandlerFns == {"fn", "gn"}

HandlerCalls ==
    /\ Len(log) < MaxHandlerCalls
    /\ \E h \in Held, fn \in HandlerFns :
        LET r == objs[uses[h].obj]
            entry(op) == [op |-> op, h |-> h, obj |-> uses[h].obj,
                          held |-> Len(uses), fn |-> fn,
                          executed |-> r.executed, response |-> r.response,
                          err |-> r.err]
        IN
        \/ OnSuccess(h, fn) /\ log' = Append(log, entry("OnSuccess"))
        \/ OnError(h, fn) /\ log' = Append(log, entry("OnError"))

NextHandlers ==
    \/ tasks = {} /\ Get("/posts/1")
    \/ tasks = {} /\ HandlerCalls
    \/ tasks = {} /\ \E h \in Held : Result(h)
    \/ StepBuilder

SpecHandlers == InitFactories /\ [][NextHandlers]_vars

----------------------------------------------------------------------------
(* Claims on the handlers *)

\* The call found the object executed with the outcome its handler is for.
Matching(e) ==
    /\ e.executed
    /\ IF e.op = "OnSuccess"
       THEN e.err = Nil /\ e.response # Nil
       ELSE e.err # Nil /\ e.err.type = "RequestError"

\* The function last registered by the calls `ops` on object o since it was
\* handed out.
Registered(o, ops) ==
    LET W == WritesTo(o, ops) IN
    IF W = {} THEN "nil" ELSE log[CHOOSE i \in W : \A j \in W : j <= i].fn

\* C34: the invocations made are, in order, one for each OnSuccess or
\* OnError call that found its object executed with the matching outcome,
\* with that outcome as argument: no call before execution and no execution
\* invokes a handler, and the object keeps the function last registered.
C34_InvokedAtRegistration ==
    /\ LET S == SelectSeq(log, Matching) IN
       invoked = [i \in 1..Len(S) |->
                    <<S[i].fn, IF S[i].op = "OnSuccess" THEN S[i].response
                                                        ELSE S[i].err>>]
    /\ \A o \in Objs :
          /\ objs[o].successHandler = Registered(o, {"OnSuccess"})
          /\ objs[o].errorHandler = Registered(o, {"OnError"})

\* OnSuccess before a successful execution invoked nothing, neither did the
\* execution; OnSuccess after it invoked its function once.
C34_Witness ==
    /\ Len(log) = 2
    /\ log[1].op = "OnSuccess" /\ ~log[1].executed
    /\ log[2].op = "OnSuccess" /\ log[2].h = log[1].h /\ log[2].executed
    /\ uses[log[1].h].trips = 1
    /\ invoked = <<<<log[2].fn, log[2].response>>>>
    /\ log[2].response.StatusCode = 200

\* OnError after an execution that failed without a response status invoked
\* nothing; OnError after a 404 invoked its function.
C34_ErrorWitness ==
    /\ Len(log) = 2
    /\ log[1].op = "OnError" /\ log[1].executed /\ log[1].err.type = "error"
    /\ log[2].op = "OnError" /\ log[2].executed
    /\ log[2].err.type = "RequestError"
    /\ invoked = <<<<log[2].fn, log[2].err>>>>

----------------------------------------------------------------------------
(* A pool that is shut down while requests are submitted, each Submit call  *)
(* recorded with the state of the pool it found                             *)

ShutdownCalls ==
    \/ \E e \in {"/posts/1"} : Get(e)
    \/ \E p \in Pools, h \in Held :
          /\ Len(log) < MaxLateSubmits
          /\ Submit(p, h)
          /\ log' = Append(log, [op |-> "Submit", p |-> p, h |-> h,
                                 shutdown |-> rpool[p].shutdown,
                                 wait |-> rpool[p].wait])
    \/ \E i \in 1..Len(chans) : Receive(i)
    \/ \E p \in Pools : WaitClose(p)
    \/ \E p \in Pools : WaitReturn(p)

NextShutdown ==
    \/ ShutdownCalls
    \/ \E p \in Pools : worker(p)
    \/ \E t \in tasks : LiveSteps(t) \/ PoolSteps(t)

\* A pool created with its full number of workers.
InitShutdown == Init /\ rpool[1].workers = MaxWorkers

\* The goroutines of Submit.
SubmitStep == \E t \in tasks : LiveSteps(t) \/ PoolSteps(t)

\* The goroutines of Submit, the workers and the caller blocked in Wait()
\* are scheduled fairly.
LiveShutdown ==
    /\ InitShutdown
    /\ [][NextShutdown]_vars
    /\ WF_vars(SubmitStep)
    /\ WF_vars(worker(1))
    /\ WF_vars(WaitReturn(1))

----------------------------------------------------------------------------
(* Claims on Submit and the pool's lifecycle *)

\* C35: with round trips that end, the request of the i-th Submit call gets
\* its one Result sent on its channel and the channel closed, when the call
\* found the pool shut down by Wait() as when it found the pool running.
C35_SubmitAfterShutdown ==
    \A i \in 1..MaxLateSubmits :
        /\ (Len(log) >= i /\ log[i].shutdown)
              ~> (Len(chans) >= i /\ chans[i].closed /\ Sent(chans[i]) = 1)
        /\ (Len(log) >= i /\ ~log[i].shutdown)
              ~> (Len(chans) >= i /\ chans[i].closed /\ Sent(chans[i]) = 1)

\* A request was submitted after Wait() had returned; its Result, a
\* response, was received and its channel is closed.
C35_Witness ==
    \E i \in 1..Len(log) :
        /\ log[i].shutdown
        /\ log[i].wait = "returned"
        /\ chans[i].closed
        /\ chans[i].nrecv = 1
        /\ chans[i].buf = <<>>
        /\ rpool[log[i].p].wg = 0

----------------------------------------------------------------------------
(* Requests that name Authorization themselves, of a client whose global    *)
(* headers may name it and whose credentials are set, cleared or set in     *)
(* part                                                                     *)

AuthGlobalHeaders == {<<>>, [k \in {"Authorization"} |-> "Custom g"]}
AuthHeaderKeys == {"Authorization", "authorization"}
AuthHeaderVals == {"Custom r"}
Usernames == {"", "u"}
Passwords == {"", "p"}

InitCredentials ==
    /\ client \in {New(<<[zeroConfig EXCEPT !.BaseURL = "http://h",
                                            !.GlobalHeaders = g]>>) :
                      g \in AuthGlobalHeaders}
    /\ objs = <<>>
    /\ pool = <<>>
    /\ uses = <<>>
    /\ invoked = <<>>
    /\ clients = <<>>
    /\ errDst = ""
    /\ nsets = 0
    /\ log = <<>>
    /\ tasks = {}
    /\ batch = <<>>
    /\ execs = <<>>
    /\ rpool = <<>>
    /\ chans = <<>>

CredentialCalls ==
    \/ Get("/posts/1")
    \/ UNCHANGED log /\ \E token \in {"", "t1"} : SetBearerToken(token)
    \/ UNCHANGED log /\ \E u \in Usernames, p \in Passwords : WithBasicAuth(u, p)
    \/ /\ nsets < MaxSets
       /\ UNCHANGED log
       /\ \E h \in Held :
            \/ \E k \in AuthHeaderKeys, v \in AuthHeaderVals : SetHeader(h, k, v)
            \/ \E k \in AuthHeaderKeys, v \in AuthHeaderVals :
                  SetHeaders(h, [x \in {k} |-> v])
    \/ \E h \in Held : Result(h)

NextCredentials ==
    \/ tasks = {} /\ CredentialCalls
    \/ \E t \in tasks : LiveSteps(t)

SpecCredentials == InitCredentials /\ [][NextCredentials]_vars

----------------------------------------------------------------------------
(* Claims on the credentials and the header layers *)

\* The Authorization values the credentials client c holds stand for.
ClientCredentials(c) ==
    (IF c.bearerToken # "" THEN {"Bearer " \o c.bearerToken} ELSE {})
    \cup (IF c.basicAuth.Username # "" /\ c.basicAuth.Password # ""
          THEN {basicAuth(c.basicAuth.Username, c.basicAuth.Password)}
          ELSE {})

\* The request of task t or the client's global headers name Authorization.
NamesAuthorization(t) ==
    \/ \E k \in DOMAIN objs[t.obj].headers.kv : CanonicalKey(k) = "Authorization"
    \/ \E k \in DOMAIN client.globalHeaders : CanonicalKey(k) = "Authorization"

\* C36: a request sent by a client that holds credentials carries them as
\* its Authorization, whatever Authorization the request's own headers or
\* the client's global headers name.
C36_CredentialsOverHeaders ==
    \A t \in tasks :
        (t.req # Nil /\ ClientCredentials(client) # {})
        => Authorization(t.req) \in ClientCredentials(client)

\* The request names authorization, the global headers name Authorization,
\* and the request sent carries the client's bearer token.
C36_Witness ==
    \E t \in tasks :
        /\ t.pc = "net"
        /\ "authorization" \in DOMAIN objs[t.obj].headers.kv
        /\ "Authorization" \in DOMAIN client.globalHeaders
        /\ client.bearerToken = "t1"
        /\ t.req.Header["Authorization"] = "Bearer t1"

\* C37: a request carries the client's basic credentials only when the user
\* name and the password are both non-empty; with one of them empty and no
\* bearer token, a request that names no Authorization of its own, of a
\* client whose global headers name none, is sent without one.
C37_BasicNeedsBoth ==
    \A t \in tasks : t.req # Nil =>
        LET u == client.basicAuth.Username
            p == client.basicAuth.Password
        IN  /\ Authorization(t.req) = basicAuth(u, p) => (u # "" /\ p # "")
            /\ (/\ u = "" \/ p = ""
                /\ client.bearerToken = ""
                /\ ~NamesAuthorization(t))
               => "Authorization" \notin DOMAIN t.req.Header

\* After WithBasicAuth("u", ""), with no bearer token, a request is sent
\* without Authorization.
C37_Witness ==
    \E t \in tasks :
        /\ t.pc = "net"
        /\ client.basicAuth = [Username |-> "u", Password |-> ""]
        /\ client.bearerToken = ""
        /\ "Authorization" \notin DOMAIN t.req.Header

----------------------------------------------------------------------------
(* The package-level functions and the default client they use, next to a   *)
(* client of the caller's                                                   *)

\* New(config...) for defaultClient: the client and its empty pool.
newDefault(config) == New(config) @@ [pool |-> <<>>]

\* The package-level factories: defaultClient.Get(endpoint), ...
PackageGet(endpoint) == acquireFrom(defaultClient, "GET", Background, endpoint)
PackagePost(endpoint) == acquireFrom(defaultClient, "POST", Background, endpoint)

\* The package-level SetBearerToken(token).
PackageSetBearerToken(token) ==
    /\ clients' = [clients EXCEPT ![defaultClient].bearerToken = token]
    /\ UNCHANGED <<client, objs, pool, uses, invoked, errDst, nsets, tasks,
                   batch, execs, rpool, chans>>

\* SetDefaultClient(config): defaultClient = New(config).
SetDefaultClient(config) ==
    /\ Len(clients) < MaxClients
    /\ clients' = Append(clients, newDefault(<<config>>))
    /\ UNCHANGED <<client, objs, pool, uses, invoked, errDst, nsets, tasks,
                   batch, execs, rpool, chans>>

DefaultConfigs ==
    {[zeroConfig EXCEPT !.BaseURL = "http://g",
                        !.GlobalHeaders = [k \in {"X-Custom"} |-> "g1"]]}

\* A network on which a request without a host fails and any other reaches
\* the server of the package's tests.
hostServer(req) ==
    IF req.URL.base = ""
    THEN {[kind |-> "fail", cause |-> "transport", ctxErr |-> FALSE]}
    ELSE testServer(req)

\* var defaultClient = New(), and a client the caller made.
InitDefault ==
    /\ client = newClient("http://h")
    /\ clients = <<newDefault(<<>>)>>
    /\ objs = <<>>
    /\ pool = <<>>
    /\ uses = <<>>
    /\ invoked = <<>>
    /\ errDst = ""
    /\ nsets = 0
    /\ log = <<>>
    /\ tasks = {}
    /\ batch = <<>>
    /\ execs = <<>>
    /\ rpool = <<>>
    /\ chans = <<>>

DefaultCalls ==
    \/ PackageGet("/posts/1")
    \/ PackagePost("/posts")
    \/ Get("/posts/1")
    \/ UNCHANGED log /\ \E token \in {"t1"} : PackageSetBearerToken(token)
    \/ UNCHANGED log /\ \E config \in DefaultConfigs : SetDefaultClient(config)
    \/ \E h \in Held : Result(h)

DefaultSteps(t) ==
    ResultBegin(t) \/ RoundTrip(t, hostServer(t.req)) \/ ResultReturn(t)

NextDefault ==
    \/ tasks = {} /\ DefaultCalls
    \/ \E t \in tasks : DefaultSteps(t)

SpecDefault == InitDefault /\ [][NextDefault]_vars

----------------------------------------------------------------------------
(* Claims on the client a request belongs to *)

\* C38: a request object belongs to the client whose factory handed it out:
\* the request sent goes through that client's http.Client, to that
\* client's base URL, with that client's global headers and credentials,
\* and every pool holds only objects of its own client, whatever
\* defaultClient refers to by then.
C38_BoundToCreator ==
    /\ \A h \in Held : objs[uses[h].obj].client = uses[h].by
    /\ \A o \in Objs :
          /\ pool[o] > 0 => objs[o].client = 0
          /\ \A k \in 1..Len(clients) :
                held(clients[k].pool, o) > 0 => objs[o].client = k
    /\ \A t \in tasks : t.pc = "net" =>
          LET c == theClient(uses[t.h].by) IN
          /\ t.doer = uses[t.h].by
          /\ t.req.URL.base = c.baseURL
          /\ t.req.Header \in {addAuth(c, hdr) : hdr \in addHeaders(c, objs[t.obj])}

\* A request of the package-level Get is sent after SetDefaultClient put
\* another client with another base URL and a global header in place, and
\* after that client got a bearer token: it goes to the first client's base
\* URL without the header and without the token.
C38_Witness ==
    \E t \in tasks :
        /\ t.pc = "net"
        /\ uses[t.h].by = 1
        /\ defaultClient = 2
        /\ clients[2].bearerToken = "t1"
        /\ t.doer = 1
        /\ t.req.URL.base = ""
        /\ DOMAIN t.req.Header = {"Content-Type", "Accept"}

\* Such a request has returned and is in the first client's pool, not in
\* the pool of the client defaultClient refers to.
C38_ReleaseWitness ==
    \E h \in Held :
        /\ uses[h].by = 1
        /\ defaultClient = 2
        /\ uses[h].nreads = 1
        /\ held(clients[1].pool, uses[h].obj) = 1
        /\ held(clients[2].pool, uses[h].obj) = 0

----------------------------------------------------------------------------
(* Claims on the defaults of the configuration *)

====
